---- MODULE Spec2Model ----
(***************************************************************************)
(* Model of the nixernetes manifest validation and resource-ordering      *)
(* engine (tests/test_yaml_validation.py) and of the API version matrix   *)
(* builder (docs/api_schema_parser.py), and of the configuration file     *)
(* validator of the CLI (src/validation.py).                               *)
(*                                                                         *)
(* Python values are tagged records, so that a dictionary, None, a string *)
(* and a list can sit in the same field of a document:                    *)
(*   [t |-> "absent"]          the key is not in the enclosing dict       *)
(*   [t |-> "null"]            None                                       *)
(*   [t |-> "str",  v |-> s]   a str                                      *)
(*   [t |-> "int",  v |-> s]   an int (its digits)                        *)
(*   [t |-> "list", v |-> q]   a list                                     *)
(*   [t |-> "map",  m |-> f]   a dict, f a function on its keys           *)
(***************************************************************************)
EXTENDS Integers, Sequences, FiniteSets, TLC

VARIABLES
    \* ManifestAnalyzer: one call at a time on the same yaml_content
    yaml_content,        \* the documents yaml.safe_load_all yields, in order
    pc,                  \* position of the analyzer
    resources,           \* parse_yaml_manifest's list
    i,                   \* loop index (1-based) into resources
    validation_results,  \* validate_manifest: per-resource results
    result,              \* what validate_manifest returned (or raised)
    prev_priority,       \* validate_resource_ordering
    is_ordered,
    ordering_issues,
    ordering_result,     \* what validate_resource_ordering returned
    \* a single validator applied to a single resource
    resource,
    out,
    \* KubernetesAPIParser.extract_api_map
    include_extended,    \* the parser's constructor argument
    spec_doc,            \* the OpenAPI document handed to extract_api_map
    api_pc,              \* position of extract_api_map
    path_i,              \* index (1-based) of the path being examined
    op_i,                \* index (1-based) of the verb being examined
    api_map,             \* the accumulator
    api_result,          \* what extract_api_map returned (or raised)
    \* generate_nix_code and the resolveApiVersion it emits
    api_maps,            \* version -> (kind -> apiVersion), as main collects it
    k8s_versions,        \* the versions handed to generate_nix_code
    nix_pc,              \* "idle", then "generated"
    apiVersionMatrix,    \* the attribute set of the generated Nix code
    resolved,            \* the last resolveApiVersion call and its outcome
    \* ConfigurationValidator.validate_file
    self_strict,         \* self.strict
    self_errors,         \* self.errors
    self_warnings,       \* self.warnings
    filepath,            \* the file at the path handed to validate_file
    cfg_pc,              \* position of validate_file
    line_no,             \* _check_syntax: number of the line examined next
    file_result          \* what validate_file returned (or raised)

varsM == <<yaml_content, pc, resources, i, validation_results, result,
           prev_priority, is_ordered, ordering_issues, ordering_result>>
varsR == <<resource, out>>
varsA == <<include_extended, spec_doc, api_pc, path_i, op_i, api_map, api_result>>
varsN == <<api_maps, k8s_versions, nix_pc, apiVersionMatrix, resolved>>
varsC == <<self_strict, self_errors, self_warnings, filepath, cfg_pc, line_no,
           file_result>>
vars == <<varsM, varsR, varsA, varsN, varsC>>

----------------------------------------------------------------------------
(* Python values *)

Absent == [t |-> "absent"]
Null == [t |-> "null"]
Str(s) == [t |-> "str", v |-> s]
IntV(s) == [t |-> "int", v |-> s]
List(q) == [t |-> "list", v |-> q]
Map(f) == [t |-> "map", m |-> f]
EmptyMap == Map(<<>>)

\* isinstance(v, dict) / isinstance(v, str) / isinstance(v, list)
IsDict(v) == v.t = "map"
IsStr(v) == v.t = "str"
IsList(v) == v.t = "list"

\* bool(v)
Truthy(v) ==
    CASE v.t = "null" -> FALSE
      [] v.t = "absent" -> FALSE
      [] v.t = "str" -> v.v # ""
      [] v.t = "int" -> v.v # "0"
      [] v.t = "list" -> Len(v.v) > 0
      [] v.t = "map" -> DOMAIN v.m # {}

\* `k in v` raises TypeError on None and on an int
InRaises(v) == v.t \in {"null", "int"}

\* `k in v`: key membership in a dict, element membership in a list; on a str
\* it is the substring test, which is false for every str of the model (none
\* of them contains a key name)
In(k, v) ==
    CASE v.t = "map" -> k \in DOMAIN v.m
      [] v.t = "list" -> \E j \in 1..Len(v.v) : v.v[j] = Str(k)
      [] OTHER -> FALSE

\* v.get(...) raises AttributeError unless v is a dict
GetRaises(v) == v.t # "map"

\* v.get(k, default) on a dict
GetOr(v, k, default) == IF k \in DOMAIN v.m THEN v.m[k] ELSE default

\* v.get(k) on a dict
Get(v, k) == GetOr(v, k, Null)

\* v[k] on a dict that has k
Item(v, k) == v.m[k]

\* a finding: the message of the source, with the value an f-string puts in
Finding(msg, arg) == [msg |-> msg, arg |-> arg]
NoRaise(errors) == [raised |-> FALSE, is_valid |-> Len(errors) = 0, errors |-> errors]
Raised == [raised |-> TRUE, is_valid |-> FALSE, errors |-> <<>>]

\* errors.append(x) when cond
AppendIf(errors, cond, x) == IF cond THEN Append(errors, x) ELSE errors

----------------------------------------------------------------------------
(* KubernetesValidator *)

\* validate_resource_structure raises where line 60 evaluates
\* `"namespace" in resource["metadata"]` on a metadata that supports no `in`
StructureRaises(r) == In("metadata", r) /\ InRaises(Item(r, "metadata"))

\* mutant: the required-field checks form one elif chain
StructureErrorsFirstMissing(r) ==
    IF ~In("apiVersion", r) THEN <<Finding("Missing required field: apiVersion", "")>>
    ELSE IF ~In("kind", r) THEN <<Finding("Missing required field: kind", "")>>
    ELSE IF ~In("metadata", r) THEN <<Finding("Missing required field: metadata", "")>>
    ELSE IF IsDict(Item(r, "metadata")) /\ ~In("name", Item(r, "metadata"))
         THEN <<Finding("metadata.name is required", "")>>
    ELSE <<>>

StructureErrors(r) ==
    LET e1 == AppendIf(<<>>, ~In("apiVersion", r),
                       Finding("Missing required field: apiVersion", ""))
        e2 == AppendIf(e1, ~In("kind", r),
                       Finding("Missing required field: kind", ""))
        e3 == AppendIf(e2, ~In("metadata", r),
                       Finding("Missing required field: metadata", ""))
        metadata == Item(r, "metadata")
        e4 == IF ~In("metadata", r) THEN e3
              ELSE IF ~IsDict(metadata)
                   THEN Append(e3, Finding("metadata must be a dictionary", ""))
              ELSE IF ~In("name", metadata)
                   THEN Append(e3, Finding("metadata.name is required", ""))
              ELSE IF ~IsStr(Item(metadata, "name"))
                   THEN Append(e3, Finding("metadata.name must be a string", ""))
              ELSE e3
        e5 == IF In("metadata", r) /\ In("namespace", metadata)
              THEN AppendIf(e4, ~IsStr(Item(metadata, "namespace")),
                            Finding("metadata.namespace must be a string", ""))
              ELSE e4
    IN e5

validate_resource_structure(r) ==
    IF StructureRaises(r) THEN Raised ELSE NoRaise(StructureErrors(r))

\* resource.get("metadata", {}).get(key, {}): the value, or "raises"
MetadataGetRaises(r) == GetRaises(GetOr(r, "metadata", EmptyMap))
MetadataGet(r, key, default) == GetOr(GetOr(r, "metadata", EmptyMap), key, default)

validate_labels(r) ==
    IF MetadataGetRaises(r) THEN Raised
    ELSE LET labels == MetadataGet(r, "labels", EmptyMap)
         IN IF ~IsDict(labels)
            THEN [raised |-> FALSE, is_valid |-> FALSE,
                  errors |-> <<Finding("labels must be a dictionary", "")>>]
            ELSE NoRaise(<<>>)

validate_annotations(r) ==
    IF MetadataGetRaises(r) THEN Raised
    ELSE LET annotations == MetadataGet(r, "annotations", EmptyMap)
         IN IF Truthy(annotations) /\ ~IsDict(annotations)
            THEN [raised |-> FALSE, is_valid |-> FALSE,
                  errors |-> <<Finding("annotations must be a dictionary", "")>>]
            ELSE NoRaise(<<>>)

----------------------------------------------------------------------------
(* ComplianceValidator *)

VALID_FRAMEWORKS == {"PCI-DSS", "HIPAA", "SOC2", "ISO27001", "GDPR", "NIST"}
\* mutant: the least restrictive level is not recognised
ValidLevelsFromPermissive == {"permissive", "standard", "strict", "restricted"}

VALID_LEVELS == {"unrestricted", "permissive", "standard", "strict", "restricted"}

\* `x in <list of str>`
InStrList(x, S) == IsStr(x) /\ x.v \in S

\* what an f-string prints of a value
Shown(x) == IF x.t \in {"str", "int"} THEN x.v ELSE x.t

ComplianceRaises(r, required) ==
    \/ MetadataGetRaises(r)
    \/ InRaises(MetadataGet(r, "labels", EmptyMap))

\* mutant: the framework label is demanded whatever the flag
ComplianceErrorsAlwaysRequired(r, required) ==
    LET labels == MetadataGet(r, "labels", EmptyMap)
        e1 == AppendIf(<<>>, ~In("nixernetes.io/framework", labels),
                       Finding("Required label missing: nixernetes.io/framework", ""))
        e2 == IF In("nixernetes.io/framework", labels)
              THEN LET framework == Item(labels, "nixernetes.io/framework")
                   IN AppendIf(e1, ~InStrList(framework, VALID_FRAMEWORKS),
                               Finding("Invalid framework", Shown(framework)))
              ELSE e1
        e3 == IF In("nixernetes.io/compliance-level", labels)
              THEN LET level == Item(labels, "nixernetes.io/compliance-level")
                   IN AppendIf(e2, ~InStrList(level, VALID_LEVELS),
                               Finding("Invalid compliance level", Shown(level)))
              ELSE e2
    IN e3

ComplianceErrors(r, required) ==
    LET labels == MetadataGet(r, "labels", EmptyMap)
        e1 == AppendIf(<<>>, required /\ ~In("nixernetes.io/framework", labels),
                       Finding("Required label missing: nixernetes.io/framework", ""))
        e2 == IF In("nixernetes.io/framework", labels)
              THEN LET framework == Item(labels, "nixernetes.io/framework")
                   IN AppendIf(e1, ~InStrList(framework, VALID_FRAMEWORKS),
                               Finding("Invalid framework", Shown(framework)))
              ELSE e1
        e3 == IF In("nixernetes.io/compliance-level", labels)
              THEN LET level == Item(labels, "nixernetes.io/compliance-level")
                   IN AppendIf(e2, ~InStrList(level, VALID_LEVELS),
                               Finding("Invalid compliance level", Shown(level)))
              ELSE e2
    IN e3

validate_compliance_labels(r, required) ==
    IF ComplianceRaises(r, required) THEN Raised
    ELSE NoRaise(ComplianceErrors(r, required))

traceability_fields == {"nixernetes.io/nix-build-id", "nixernetes.io/generated-by"}

\* any(field in annotations ...) stops at the first field found, and raises
\* on the first field when annotations supports no `in`
validate_traceability(r) ==
    IF MetadataGetRaises(r) \/ InRaises(MetadataGet(r, "annotations", EmptyMap))
    THEN Raised
    ELSE [raised |-> FALSE, is_valid |-> TRUE, errors |-> <<>>]

----------------------------------------------------------------------------
(* PolicyValidator *)

\* resource.get("kind") as a value; a str kind is compared by its text
KindOf(r) == Get(r, "kind")

\* mutant: a resource without a kind is taken for one of the owned kinds
KindIsOrMissing(r, S) == KindOf(r) = Null \/ (IsStr(KindOf(r)) /\ KindOf(r).v \in S)

KindIs(r, S) == IsStr(KindOf(r)) /\ KindOf(r).v \in S

\* spec = resource.get("spec", {})
SpecOf(r) == GetOr(r, "spec", EmptyMap)

\* mutant: a missing podSelector is not reported
NetworkPolicyErrorsRulesOnly(r) ==
    LET spec == SpecOf(r)
        has_rules == In("ingress", spec) \/ In("egress", spec) \/ In("policyTypes", spec)
    IN AppendIf(<<>>, ~has_rules,
                Finding("NetworkPolicy should define ingress/egress rules or policyTypes", ""))

NetworkPolicyErrors(r) ==
    LET spec == SpecOf(r)
        e1 == AppendIf(<<>>, ~In("podSelector", spec),
                       Finding("NetworkPolicy.spec.podSelector is required", ""))
        has_rules == In("ingress", spec) \/ In("egress", spec) \/ In("policyTypes", spec)
    IN AppendIf(e1, ~has_rules,
                Finding("NetworkPolicy should define ingress/egress rules or policyTypes", ""))

validate_network_policy(r) ==
    IF ~KindIs(r, {"NetworkPolicy"}) THEN NoRaise(<<>>)
    ELSE IF InRaises(SpecOf(r)) THEN Raised
    ELSE NoRaise(NetworkPolicyErrors(r))

\* spec.get("rules") is reached after `"rules" not in spec`: a spec that is a
\* str or a list passes the `in` and raises on .get
KyvernoRaises(r) == InRaises(SpecOf(r)) \/ GetRaises(SpecOf(r))

KyvernoErrors(r) ==
    LET spec == SpecOf(r)
        kind == KindOf(r).v
        e1 == AppendIf(<<>>, ~In("rules", spec), Finding("spec.rules is required", kind))
        rules == Get(spec, "rules")
    IN AppendIf(e1, IsList(rules) /\ Len(rules.v) = 0,
                Finding("spec.rules must not be empty", kind))

validate_kyverno_policy(r) ==
    IF ~KindIs(r, {"ClusterPolicy", "Policy"}) THEN NoRaise(<<>>)
    ELSE IF KyvernoRaises(r) THEN Raised
    ELSE NoRaise(KyvernoErrors(r))

\* mutant: subjects is looked at only when roleRef is there
RbacErrorsSubjectsAfterRoleRef(r) ==
    LET spec == SpecOf(r)
        kind == KindOf(r).v
    IN IF kind \in {"Role", "ClusterRole"}
       THEN AppendIf(<<>>, ~In("rules", spec), Finding("spec.rules is required", kind))
       ELSE IF ~In("roleRef", spec)
            THEN <<Finding("spec.roleRef is required", kind)>>
            ELSE AppendIf(<<>>, ~In("subjects", spec),
                          Finding("spec.subjects is required", kind))

RbacErrors(r) ==
    LET spec == SpecOf(r)
        kind == KindOf(r).v
    IN IF kind \in {"Role", "ClusterRole"}
       THEN AppendIf(<<>>, ~In("rules", spec), Finding("spec.rules is required", kind))
       ELSE LET e1 == AppendIf(<<>>, ~In("roleRef", spec),
                               Finding("spec.roleRef is required", kind))
            IN AppendIf(e1, ~In("subjects", spec),
                        Finding("spec.subjects is required", kind))

validate_rbac_resource(r) ==
    IF ~KindIs(r, {"Role", "RoleBinding", "ClusterRole", "ClusterRoleBinding"})
    THEN NoRaise(<<>>)
    ELSE IF InRaises(SpecOf(r)) THEN Raised
    ELSE NoRaise(RbacErrors(r))

----------------------------------------------------------------------------
(* ManifestAnalyzer.validate_manifest *)

\* a value that can be a set element or a dict key
Hashable(v) == v.t \notin {"list", "map"}

\* mutant: None entries are kept
ParseKeepsNull(docs) == docs

\* parse_yaml_manifest: the documents that are not None, in order
RECURSIVE parse_yaml_manifest(_)
parse_yaml_manifest(docs) ==
    IF docs = <<>> THEN <<>>
    ELSE IF Head(docs) # Null
         THEN <<Head(docs)>> \o parse_yaml_manifest(Tail(docs))
         ELSE parse_yaml_manifest(Tail(docs))

\* mutant: the policy validators run first
ResourceChecksPolicyFirst(r) ==
    <<validate_network_policy(r), validate_kyverno_policy(r),
      validate_rbac_resource(r)>>
    \o <<validate_resource_structure(r), validate_labels(r), validate_annotations(r)>>
    \o (IF ~MetadataGetRaises(r) /\ In("labels", GetOr(r, "metadata", EmptyMap))
        THEN <<validate_compliance_labels(r, FALSE)>> ELSE <<>>)

\* the validators of one loop iteration, in call order; compliance runs only
\* when metadata has a "labels" key
ResourceChecks(r) ==
    <<validate_resource_structure(r), validate_labels(r), validate_annotations(r)>>
    \o (IF ~MetadataGetRaises(r) /\ In("labels", GetOr(r, "metadata", EmptyMap))
        THEN <<validate_compliance_labels(r, FALSE)>> ELSE <<>>)
    \o <<validate_network_policy(r), validate_kyverno_policy(r),
         validate_rbac_resource(r)>>

\* the iteration raises at line 290 (name) or in any validator
ResourceRaises(r) ==
    \/ MetadataGetRaises(r)
    \/ \E j \in 1..Len(ResourceChecks(r)) : ResourceChecks(r)[j].raised

\* mutant: the validators after the first one with findings are skipped
RECURSIVE ConcatUntilFirstError(_)
ConcatUntilFirstError(checks) ==
    IF checks = <<>> THEN <<>>
    ELSE IF Head(checks).errors # <<>> THEN Head(checks).errors
    ELSE ConcatUntilFirstError(Tail(checks))

RECURSIVE ConcatErrors(_)
ConcatErrors(checks) ==
    IF checks = <<>> THEN <<>>
    ELSE Head(checks).errors \o ConcatErrors(Tail(checks))

\* the entry appended to validation_results for resources[index]
ResourceResult(r, index) ==
    LET resource_errors == ConcatErrors(ResourceChecks(r))
    IN [index |-> index,
        kind |-> GetOr(r, "kind", Str("Unknown")),
        name |-> MetadataGet(r, "name", Str("unnamed")),
        is_valid |-> Len(resource_errors) = 0,
        errors |-> resource_errors]

\* mutant: the declared namespaces are read from metadata.namespace
DeclaredNamespacesOwnNamespace(rs) ==
    {MetadataGet(rs[j], "namespace", Null) :
        j \in {k \in 1..Len(rs) : Get(rs[k], "kind") = Str("Namespace")}}

\* the set comprehension of lines 331-335
DeclaredNamespaces(rs) ==
    {MetadataGet(rs[j], "name", Null) :
        j \in {k \in 1..Len(rs) : Get(rs[k], "kind") = Str("Namespace")}}

NamespaceCheckRaises(rs) ==
    \/ \E j \in 1..Len(rs) :
          /\ Get(rs[j], "kind") = Str("Namespace")
          /\ \/ MetadataGetRaises(rs[j])
             \/ ~Hashable(MetadataGet(rs[j], "name", Null))
    \/ \E j \in 1..Len(rs) :
          \/ MetadataGetRaises(rs[j])
          \/ LET ns == MetadataGet(rs[j], "namespace", Null)
             IN Truthy(ns) /\ ns # Str("default") /\ ~Hashable(ns)

\* mutant: "default" is not exempt
DanglingWithDefault(r, namespaces) ==
    LET ns == MetadataGet(r, "namespace", Null)
    IN Truthy(ns) /\ ns \notin namespaces

\* line 339
Dangling(r, namespaces) ==
    LET ns == MetadataGet(r, "namespace", Null)
    IN Truthy(ns) /\ ns # Str("default") /\ ns \notin namespaces

RECURSIVE ManifestErrors(_, _)
ManifestErrors(rs, namespaces) ==
    IF rs = <<>> THEN <<>>
    ELSE (IF Dangling(Head(rs), namespaces)
          THEN <<[msg |-> "references namespace which is not defined",
                  kind |-> Get(Head(rs), "kind"),
                  name |-> MetadataGet(Head(rs), "name", Null),
                  ns |-> MetadataGet(Head(rs), "namespace", Null)]>>
          ELSE <<>>)
         \o ManifestErrors(Tail(rs), namespaces)

AllValid(results) == \A j \in 1..Len(results) : results[j].is_valid

\* mutant: the bundle-level findings are not counted
ManifestIsValidResourcesOnly(errors, results) == AllValid(results)

\* lines 345-348
ManifestIsValid(errors, results) == Len(errors) = 0 /\ AllValid(results)

NotCalled == [called |-> FALSE, raised |-> FALSE]
CallRaised == [called |-> TRUE, raised |-> TRUE]

ManifestReturn(rs, results) ==
    LET errors == ManifestErrors(rs, DeclaredNamespaces(rs))
    IN [called |-> TRUE, raised |-> FALSE,
        is_valid |-> ManifestIsValid(errors, results),
        resource_count |-> Len(rs),
        validation_results |-> results,
        manifest_errors |-> errors]

----------------------------------------------------------------------------
(* ManifestAnalyzer.validate_resource_ordering *)

\* mutant: Namespace comes after the workloads
resource_priorityNamespaceLate ==
    [k \in {"ClusterRole", "ClusterRoleBinding", "Role", "RoleBinding",
            "ServiceAccount"} |-> 2]
    @@ [k \in {"ConfigMap", "Secret"} |-> 3]
    @@ [k \in {"Pod", "Deployment", "StatefulSet", "DaemonSet", "Job", "CronJob"} |-> 4]
    @@ [k \in {"Service", "Namespace"} |-> 5]
    @@ [k \in {"Ingress"} |-> 6]
    @@ [k \in {"NetworkPolicy", "ClusterPolicy", "Policy"} |-> 7]

resource_priority ==
    [k \in {"Namespace"} |-> 1]
    @@ [k \in {"ClusterRole", "ClusterRoleBinding", "Role", "RoleBinding",
               "ServiceAccount"} |-> 2]
    @@ [k \in {"ConfigMap", "Secret"} |-> 3]
    @@ [k \in {"Pod", "Deployment", "StatefulSet", "DaemonSet", "Job", "CronJob"} |-> 4]
    @@ [k \in {"Service"} |-> 5]
    @@ [k \in {"Ingress"} |-> 6]
    @@ [k \in {"NetworkPolicy", "ClusterPolicy", "Policy"} |-> 7]

\* the default of resource_priority.get(kind, 99)
UnknownPriority == 99

\* the initial prev_priority
InitialPriority == 0

\* resource_priority.get(resource.get("kind"), 99)
PriorityOf(r) ==
    LET kind == Get(r, "kind")
    IN IF IsStr(kind) /\ kind.v \in DOMAIN resource_priority
       THEN resource_priority[kind.v] ELSE UnknownPriority

\* dict.get raises TypeError on an unhashable key
PriorityRaises(r) == ~Hashable(Get(r, "kind"))

\* mutant: a tie counts as a violation
IsViolationOnTie(priority, prev) == priority <= prev

\* line 397
IsViolation(priority, prev) == priority < prev

\* mutant: the baseline stays where it was on a violation
NextPrevPriorityKept(priority, prev) == IF priority < prev THEN prev ELSE priority

\* line 404
NextPrevPriority(priority, prev) == priority

OrderingIssue(index, r, prev) ==
    [index |-> index, kind |-> Get(r, "kind"), priority |-> PriorityOf(r),
     prev_priority |-> prev]

----------------------------------------------------------------------------
(* KubernetesAPIParser: group and version strings are sequences of
   characters, so that `"alpha" in v` is the substring test it is *)

CORE_KINDS ==
    {"Pod", "Service", "Namespace", "ConfigMap", "Secret", "ServiceAccount",
     "PersistentVolume", "PersistentVolumeClaim", "Deployment", "StatefulSet",
     "DaemonSet", "ReplicaSet", "Job", "CronJob", "Ingress", "NetworkPolicy",
     "IngressClass", "Role", "RoleBinding", "ClusterRole", "ClusterRoleBinding"}

EXTENDED_KINDS ==
    {"ClusterPolicy", "Policy", "ExternalSecret", "SecretStore", "ClusterSecretStore",
     "Certificate", "Issuer", "ClusterIssuer"}

\* mutant: the extended kinds are always allowed
AllKindsExtended(extended) == CORE_KINDS \cup EXTENDED_KINDS

\* self.all_kinds, as __init__ builds it
all_kinds(extended) == IF extended THEN CORE_KINDS \cup EXTENDED_KINDS ELSE CORE_KINDS

\* `sub in s` on two str
Contains(s, sub) ==
    \E k \in 0..(Len(s) - Len(sub)) : SubSeq(s, k + 1, k + Len(sub)) = sub

ALPHA == <<"a", "l", "p", "h", "a">>
BETA == <<"b", "e", "t", "a">>
SLASH == <<"/">>

\* the ranks of the priority dict of _is_more_stable
StableRank == 3
BetaRank == 2
AlphaRank == 1

\* get_priority, the inner function of _is_more_stable
get_priority(v) ==
    IF Contains(v, ALPHA) THEN AlphaRank
    ELSE IF Contains(v, BETA) THEN BetaRank
    ELSE StableRank

\* mutant: a tie counts as more stable
IsMoreStableOrEqual(version1, version2) == get_priority(version1) >= get_priority(version2)

_is_more_stable(version1, version2) == get_priority(version1) > get_priority(version2)

\* mutant: the group is always prefixed
ApiVersionAlwaysQualified(group, version) == group \o SLASH \o version

\* line 209: f"{group}/{version}" if group else version
ApiVersionOf(group, version) ==
    IF Len(group) > 0 THEN group \o SLASH \o version ELSE version

\* the verbs, in the order line 187 scans them
Operations == <<"post", "get", "put", "patch", "delete">>

\* a dict that keeps its insertion order: a sequence of <<key, value>>
Details(items) == [t |-> "omap", items |-> items]
HasKey(d, k) == \E j \in 1..Len(d.items) : d.items[j][1] = k
ValueOf(d, k) == d.items[CHOOSE j \in 1..Len(d.items) : d.items[j][1] = k][2]

\* an operation's dict, reduced to its x-kubernetes-group-version-kind value
OpSpec(gvk) == [t |-> "map", gvk |-> gvk]
Gvk(kind, group, version) == [t |-> "gvk", kind |-> kind, group |-> group, version |-> version]
EmptyGvk == [t |-> "gvk", kind |-> Absent, group |-> Absent, version |-> Absent]

\* not gvk: None (no annotation) or {}
GvkFalsy(gvk) == gvk = Null \/ gvk = EmptyGvk

\* `operation in details` is true: on a dict the key is there, on a str the
\* verb is a substring of it, on a list the verb is an element of it
OperationIn(details, operation) ==
    CASE details.t = "omap" -> HasKey(details, operation)
      [] details.t = "str" -> Contains(details.v, operation)
      [] details.t = "list" -> \E j \in 1..Len(details.v) : details.v[j] = operation
      [] OTHER -> FALSE

\* examining one verb of one path raises: `in` on None (line 188), a subscript
\* on a str or a list (line 191), .get on an operation that is no dict
\* (line 192)
ExamineRaises(details, operation) ==
    \/ details.t \in {"null", "int"}
    \/ details.t \in {"str", "list"} /\ OperationIn(details, operation)
    \/ details.t = "omap" /\ HasKey(details, operation)
          /\ ValueOf(details, operation).t # "map"

\* the annotation examined, None when the verb is skipped at line 189
GvkAt(details, operation) ==
    IF OperationIn(details, operation) THEN ValueOf(details, operation).gvk ELSE Null

\* lines 194-206: the annotation is kept
Retained(gvk, kinds) ==
    /\ ~GvkFalsy(gvk)
    /\ gvk.kind # Absent /\ gvk.kind.v \in kinds
    /\ gvk.version # Absent /\ Len(gvk.version.v) > 0

\* lines 198-209
ApiVersionAt(gvk) ==
    ApiVersionOf(IF gvk.group = Absent THEN <<>> ELSE gvk.group.v, gvk.version.v)

\* mutant: the entry is never upgraded
AccumulateFirstSeen(map, kind, api_version) ==
    IF kind \notin DOMAIN map THEN (kind :> api_version) @@ map ELSE map

\* lines 212-218
Accumulate(map, kind, api_version) ==
    IF kind \notin DOMAIN map THEN (kind :> api_version) @@ map
    ELSE IF _is_more_stable(api_version, map[kind])
         THEN [map EXCEPT ![kind] = api_version]
    ELSE map

\* lines 192-218 for one annotation
Observe(map, gvk, kinds) ==
    IF Retained(gvk, kinds) THEN Accumulate(map, gvk.kind.v, ApiVersionAt(gvk)) ELSE map

EmptyApiMap == <<>>

\* spec.get('paths', {}).items(): the details of the paths, in order; a
\* document without the key has has_paths false
PathsOf(doc) == IF doc.has_paths THEN doc.paths ELSE <<>>

\* mutant: the verbs of a path are taken in the order the dict stores them
RECURSIVE OperationsInStoredOrder(_, _)
OperationsInStoredOrder(details, k) ==
    IF details.t # "omap" \/ k > Len(details.items) THEN <<>>
    ELSE <<details.items[k][2].gvk>> \o OperationsInStoredOrder(details, k + 1)

\* the annotations extract_api_map examines, in the order it examines them
RECURSIVE OperationsOf(_, _)
OperationsOf(details, k) ==
    IF k > Len(Operations) THEN <<>>
    ELSE <<GvkAt(details, Operations[k])>> \o OperationsOf(details, k + 1)

RECURSIVE Observations(_)
Observations(paths) ==
    IF paths = <<>> THEN <<>>
    ELSE OperationsOf(Head(paths), 1) \o Observations(Tail(paths))

RECURSIVE Fold(_, _, _)
Fold(map, obs, kinds) ==
    IF obs = <<>> THEN map ELSE Fold(Observe(map, Head(obs), kinds), Tail(obs), kinds)

PathsRaise(paths) ==
    \E j \in 1..Len(paths) : \E k \in 1..Len(Operations) :
        ExamineRaises(paths[j], Operations[k])

\* extract_api_map as a function of the document (on one that does not raise)
extract_api_map(doc, extended) ==
    Fold(EmptyApiMap, Observations(PathsOf(doc)), all_kinds(extended))

ApiIdle ==
    /\ include_extended = TRUE
    /\ spec_doc = [has_paths |-> FALSE, paths |-> <<>>]
    /\ api_pc = "idle"
    /\ path_i = 1
    /\ op_i = 1
    /\ api_map = EmptyApiMap
    /\ api_result = [called |-> FALSE, raised |-> FALSE]

----------------------------------------------------------------------------
(* generate_nix_code: the attribute set apiVersionMatrix of the Nix code it
   emits, and the resolveApiVersion function of that code *)

\* lines 313-323: one attribute per version of k8s_versions, holding
\* api_maps.get(version, {})
generate_nix_code(maps, versions) ==
    [version \in versions |->
        IF version \in DOMAIN maps THEN maps[version] ELSE EmptyApiMap]

\* the outcomes of a Nix evaluation: a value, or a throw with its message
NixValue(v) == [t |-> "value", v |-> v]
NixThrow(msg) == [t |-> "throw", msg |-> msg]
UnsupportedVersion == NixThrow("Unsupported Kubernetes version")
UnknownKind == NixThrow("Unknown resource kind")

\* mutant: a version that was never built resolves as an empty version map
resolveApiVersionEmptyDefault(matrix, kind, kubernetesVersion) ==
    LET versionMap == IF kubernetesVersion \in DOMAIN matrix
                      THEN matrix[kubernetesVersion] ELSE EmptyApiMap
    IN IF kind \in DOMAIN versionMap THEN NixValue(versionMap[kind]) ELSE UnknownKind

\* lines 334-340: `a.${k} or (throw ...)` selects the attribute when it is
\* there and throws otherwise
resolveApiVersion(matrix, kind, kubernetesVersion) ==
    IF kubernetesVersion \notin DOMAIN matrix THEN UnsupportedVersion
    ELSE IF kind \notin DOMAIN matrix[kubernetesVersion] THEN UnknownKind
    ELSE NixValue(matrix[kubernetesVersion][kind])

NotResolved == [called |-> FALSE]

NixIdle ==
    /\ api_maps = <<>>
    /\ k8s_versions = {}
    /\ nix_pc = "idle"
    /\ apiVersionMatrix = <<>>
    /\ resolved = NotResolved

\* validate_file has not been called
FileNotCalled == [called |-> FALSE, raised |-> FALSE, value |-> FALSE]

ConfigIdle ==
    /\ self_strict = FALSE
    /\ self_errors = <<>>
    /\ self_warnings = <<>>
    /\ filepath = Null
    /\ cfg_pc = "idle"
    /\ line_no = 1
    /\ file_result = FileNotCalled

----------------------------------------------------------------------------
(* Documents *)

FRAMEWORK == "nixernetes.io/framework"
LEVEL == "nixernetes.io/compliance-level"
BUILD_ID == "nixernetes.io/nix-build-id"

\* a dict from a set of keys and a function giving their values
Doc(apiVersion, kind, metadata, spec) ==
    LET all == [k \in {"apiVersion", "kind", "metadata", "spec"} |->
                   CASE k = "apiVersion" -> apiVersion
                     [] k = "kind" -> kind
                     [] k = "metadata" -> metadata
                     [] k = "spec" -> spec]
        keys == {k \in DOMAIN all : all[k] # Absent}
    IN Map([k \in keys |-> all[k]])

Meta(name, namespace, labels, annotations) ==
    LET all == [k \in {"name", "namespace", "labels", "annotations"} |->
                   CASE k = "name" -> name
                     [] k = "namespace" -> namespace
                     [] k = "labels" -> labels
                     [] k = "annotations" -> annotations]
        keys == {k \in DOMAIN all : all[k] # Absent}
    IN Map([k \in keys |-> all[k]])

\* a dict with the given keys, each holding an empty dict
KeysMap(keys) == Map([k \in keys |-> EmptyMap])

\* the documents of the example manifest of test_example_manifest, cut to the
\* fields the validators read
NamespaceA ==
    Doc(Str("v1"), Str("Namespace"),
        Meta(Str("ns-a"), Absent, Map(FRAMEWORK :> Str("SOC2")), Absent), Absent)
DeploymentA ==
    Doc(Str("apps/v1"), Str("Deployment"),
        Meta(Str("web-app"), Str("ns-a"),
             Map(FRAMEWORK :> Str("SOC2") @@ LEVEL :> Str("standard")),
             Map(BUILD_ID :> Str("abc123"))),
        KeysMap({"replicas", "selector", "template"}))
ServiceDefault ==
    Doc(Str("v1"), Str("Service"), Meta(Str("web-app"), Str("default"), Absent, Absent),
        KeysMap({"selector", "ports"}))
NetworkPolicyB ==
    Doc(Str("networking.k8s.io/v1"), Str("NetworkPolicy"),
        Meta(Str("deny"), Str("ns-b"), Absent, Absent),
        KeysMap({"podSelector", "policyTypes", "ingress"}))

\* documents with findings
NamespaceB ==
    Doc(Str("v1"), Str("Namespace"), Meta(Str("ns-b"), Absent, Absent, Absent), Absent)
NetworkPolicyBare ==
    Doc(Str("networking.k8s.io/v1"), Str("NetworkPolicy"),
        Meta(Str("bare"), Str("ns-a"), Absent, Absent), EmptyMap)
RoleNoSpec ==
    Doc(Str("rbac.authorization.k8s.io/v1"), Str("Role"),
        Meta(Str("reader"), Absent, Absent, Absent), Absent)
WidgetEmptyNs ==
    Doc(Absent, Str("Widget"),
        Meta(Str("w"), Str(""), Map(LEVEL :> Str("bogus")), Absent), Absent)
NoKindNoName == Doc(Str("v1"), Absent, EmptyMap, Absent)
PodNullMetadata == Doc(Str("v1"), Str("Pod"), Null, Absent)

\* what yaml.safe_load_all can yield for one document of the stream: a
\* document, or None for an empty one
SourceDocs ==
    {Null, NamespaceA, DeploymentA, ServiceDefault, NetworkPolicyB, NamespaceB,
     NetworkPolicyBare, RoleNoSpec, WidgetEmptyNs, NoKindNoName, PodNullMetadata}

MaxDocs == 3

\* the example manifest of test_example_manifest: Namespace, Deployment,
\* Service and NetworkPolicy, all of the one namespace
ServiceA ==
    Doc(Str("v1"), Str("Service"), Meta(Str("web-app"), Str("ns-a"), Absent, Absent),
        KeysMap({"selector", "ports"}))
NetworkPolicyA ==
    Doc(Str("networking.k8s.io/v1"), Str("NetworkPolicy"),
        Meta(Str("web-app-default-deny"), Str("ns-a"), Absent, Absent),
        KeysMap({"podSelector", "policyTypes", "ingress"}))
ExampleManifest == <<NamespaceA, DeploymentA, ServiceA, NetworkPolicyA>>

\* the Deployment of the example with `annotations: abc123`, and with
\* `labels: [SOC2]`
DeploymentTextAnnotations ==
    Doc(Str("apps/v1"), Str("Deployment"),
        Meta(Str("web-app"), Str("ns-a"),
             Map(FRAMEWORK :> Str("SOC2") @@ LEVEL :> Str("standard")),
             Str("abc123")),
        KeysMap({"replicas", "selector", "template"}))
DeploymentListLabels ==
    Doc(Str("apps/v1"), Str("Deployment"),
        Meta(Str("web-app"), Str("ns-a"), List(<<Str("SOC2")>>),
             Map(BUILD_ID :> Str("abc123"))),
        KeysMap({"replicas", "selector", "template"}))

\* the example manifest and the manifests that differ from it in the
\* Deployment's annotations or labels
ExampleManifests ==
    {<<NamespaceA, d, ServiceA, NetworkPolicyA>> :
        d \in {DeploymentA, DeploymentTextAnnotations, DeploymentListLabels}}

SeqsUpTo(S, n) == UNION {[1..k -> S] : k \in 0..n}

----------------------------------------------------------------------------
(* The analyzer: validate_manifest and validate_resource_ordering are called,
   one at a time, on the same yaml_content *)

ResourceIdle == resource = Null /\ out = NotCalled

InitManifest ==
    /\ yaml_content \in SeqsUpTo(SourceDocs, MaxDocs) \cup ExampleManifests
    /\ pc = "idle"
    /\ resources = <<>>
    /\ i = 1
    /\ validation_results = <<>>
    /\ result = NotCalled
    /\ prev_priority = InitialPriority
    /\ is_ordered = TRUE
    /\ ordering_issues = <<>>
    /\ ordering_result = NotCalled
    /\ ResourceIdle
    /\ ApiIdle
    /\ NixIdle
    /\ ConfigIdle

\* mutant: validation_results is kept from the call before
ValidateManifestCallKeepsResults ==
    /\ pc = "idle"
    /\ pc' = "validate_manifest"
    /\ resources' = parse_yaml_manifest(yaml_content)
    /\ i' = 1
    /\ UNCHANGED <<yaml_content, validation_results, result, prev_priority, is_ordered,
                   ordering_issues, ordering_result, varsR, varsA, varsN, varsC>>

\* lines 280-282
ValidateManifestCall ==
    /\ pc = "idle"
    /\ pc' = "validate_manifest"
    /\ resources' = parse_yaml_manifest(yaml_content)
    /\ i' = 1
    /\ validation_results' = <<>>
    /\ UNCHANGED <<yaml_content, result, prev_priority, is_ordered, ordering_issues,
                   ordering_result, varsR, varsA, varsN, varsC>>

\* one iteration of the loop of lines 284-327
ValidateManifestStep ==
    /\ pc = "validate_manifest"
    /\ i <= Len(resources)
    /\ IF resources[i] = Null
       THEN /\ i' = i + 1
            /\ UNCHANGED <<pc, validation_results, result>>
       ELSE IF ResourceRaises(resources[i])
       THEN /\ pc' = "idle"
            /\ result' = CallRaised
            /\ UNCHANGED <<i, validation_results>>
       ELSE /\ validation_results' =
                   Append(validation_results, ResourceResult(resources[i], i - 1))
            /\ i' = i + 1
            /\ UNCHANGED <<pc, result>>
    /\ UNCHANGED <<yaml_content, resources, prev_priority, is_ordered, ordering_issues,
                   ordering_result, varsR, varsA, varsN, varsC>>

\* lines 329-355
ValidateManifestReturn ==
    /\ pc = "validate_manifest"
    /\ i > Len(resources)
    /\ pc' = "idle"
    /\ result' = IF NamespaceCheckRaises(resources) THEN CallRaised
                 ELSE ManifestReturn(resources, validation_results)
    /\ UNCHANGED <<yaml_content, resources, i, validation_results, prev_priority,
                   is_ordered, ordering_issues, ordering_result, varsR, varsA, varsN, varsC>>

\* lines 363-389
OrderingCall ==
    /\ pc = "idle"
    /\ pc' = "validate_resource_ordering"
    /\ resources' = parse_yaml_manifest(yaml_content)
    /\ i' = 1
    /\ is_ordered' = TRUE
    /\ ordering_issues' = <<>>
    /\ prev_priority' = InitialPriority
    /\ UNCHANGED <<yaml_content, validation_results, result, ordering_result, varsR, varsA, varsN, varsC>>

\* one iteration of the loop of lines 391-404
OrderingStep ==
    /\ pc = "validate_resource_ordering"
    /\ i <= Len(resources)
    /\ IF resources[i] = Null
       THEN /\ i' = i + 1
            /\ UNCHANGED <<pc, is_ordered, ordering_issues, prev_priority, ordering_result>>
       ELSE IF PriorityRaises(resources[i])
       THEN /\ pc' = "idle"
            /\ ordering_result' = CallRaised
            /\ UNCHANGED <<i, is_ordered, ordering_issues, prev_priority>>
       ELSE LET priority == PriorityOf(resources[i])
            IN /\ is_ordered' = IF IsViolation(priority, prev_priority)
                                THEN FALSE ELSE is_ordered
               /\ ordering_issues' =
                      AppendIf(ordering_issues, IsViolation(priority, prev_priority),
                               OrderingIssue(i - 1, resources[i], prev_priority))
               /\ prev_priority' = NextPrevPriority(priority, prev_priority)
               /\ i' = i + 1
               /\ UNCHANGED <<pc, ordering_result>>
    /\ UNCHANGED <<yaml_content, resources, validation_results, result, varsR, varsA, varsN, varsC>>

\* lines 406-410
OrderingReturn ==
    /\ pc = "validate_resource_ordering"
    /\ i > Len(resources)
    /\ pc' = "idle"
    /\ ordering_result' = [called |-> TRUE, raised |-> FALSE,
                           is_ordered |-> is_ordered,
                           ordering_issues |-> ordering_issues,
                           resource_count |-> Len(resources)]
    /\ UNCHANGED <<yaml_content, resources, i, validation_results, result,
                   prev_priority, is_ordered, ordering_issues, varsR, varsA, varsN, varsC>>

NextManifest ==
    \/ ValidateManifestCall
    \/ ValidateManifestStep
    \/ ValidateManifestReturn
    \/ OrderingCall
    \/ OrderingStep
    \/ OrderingReturn

SpecManifest == InitManifest /\ [][NextManifest]_vars

----------------------------------------------------------------------------
(* One validator applied to one resource *)

\* validate_manifest as a function of the document stream
validate_manifest(docs) ==
    LET rs == parse_yaml_manifest(docs)
    IN IF \/ \E j \in 1..Len(rs) : ResourceRaises(rs[j])
          \/ NamespaceCheckRaises(rs)
       THEN CallRaised
       ELSE ManifestReturn(rs, [j \in 1..Len(rs) |-> ResourceResult(rs[j], j - 1)])

LabelMaps ==
    {Map([k \in keys |-> IF k = FRAMEWORK THEN f ELSE l]) :
        keys \in SUBSET {FRAMEWORK, LEVEL},
        f \in {Str("SOC2"), Str("bogus")},
        l \in {Str("strict"), Str("unrestricted"), Str("bogus"), Null}}

LabelValues == {Absent, Null, Str("oops")} \cup LabelMaps

AnnotationValues ==
    {Absent, Null, Str("oops"), EmptyMap, Map(BUILD_ID :> Str("abc123"))}

MetadataValues ==
    {Absent, Null, Str("oops"), List(<<>>), IntV("7")}
    \cup {Meta(name, namespace, labels, annotations) :
            name \in {Absent, Str("web"), IntV("7")},
            namespace \in {Absent, Str("ns-a"), Str(""), IntV("7")},
            labels \in LabelValues,
            annotations \in AnnotationValues}

SpecKeys == {"podSelector", "ingress", "egress", "policyTypes", "roleRef", "subjects"}

SpecMaps ==
    {Map([k \in keys \cup (IF rules = Absent THEN {} ELSE {"rules"}) |->
             IF k = "rules" THEN rules ELSE EmptyMap]) :
        keys \in SUBSET SpecKeys,
        rules \in {Absent, Null, EmptyMap, List(<<>>), List(<<EmptyMap>>)}}

SpecValues == {Absent, Null, Str("oops"), List(<<>>)} \cup SpecMaps

PolicyKinds ==
    {Absent, Str("NetworkPolicy"), Str("ClusterPolicy"), Str("Policy"), Str("Role"),
     Str("ClusterRole"), Str("RoleBinding"), Str("ClusterRoleBinding"),
     Str("Deployment"), Str("Widget")}

\* a resource with a finding of every layer: no apiVersion, annotations that
\* are a string, an unknown compliance level, a NetworkPolicy with an empty spec
MixedFindings ==
    Doc(Absent, Str("NetworkPolicy"),
        Meta(Str("np"), Absent, Map(LEVEL :> Str("bogus")), Str("oops")), EmptyMap)

\* resources that vary in what the structural and compliance validators read,
\* and resources that vary in what the policy validators read
Resources ==
    {MixedFindings} \cup
    {Doc(apiVersion, kind, metadata, Absent) :
        apiVersion \in {Absent, Str("v1")},
        kind \in {Absent, Str("Pod")},
        metadata \in MetadataValues}
    \cup {Doc(Str("v1"), kind, Meta(Str("web"), Absent, Absent, Absent), spec) :
            kind \in PolicyKinds, spec \in SpecValues}

Called(fn, res) ==
    [called |-> TRUE, fn |-> fn, raised |-> res.raised,
     is_valid |-> res.is_valid, errors |-> res.errors]

ManifestIdle ==
    /\ yaml_content = <<>>
    /\ pc = "idle"
    /\ resources = <<>>
    /\ i = 1
    /\ validation_results = <<>>
    /\ result = NotCalled
    /\ prev_priority = InitialPriority
    /\ is_ordered = TRUE
    /\ ordering_issues = <<>>
    /\ ordering_result = NotCalled

InitResource ==
    /\ resource \in Resources
    /\ out = NotCalled
    /\ ManifestIdle
    /\ ApiIdle
    /\ NixIdle
    /\ ConfigIdle

CallStructure ==
    /\ out = NotCalled
    /\ out' = Called("validate_resource_structure", validate_resource_structure(resource))
    /\ UNCHANGED <<resource, varsM, varsA, varsN, varsC>>

CallLabels ==
    /\ out = NotCalled
    /\ out' = Called("validate_labels", validate_labels(resource))
    /\ UNCHANGED <<resource, varsM, varsA, varsN, varsC>>

CallAnnotations ==
    /\ out = NotCalled
    /\ out' = Called("validate_annotations", validate_annotations(resource))
    /\ UNCHANGED <<resource, varsM, varsA, varsN, varsC>>

CallComplianceLabels ==
    /\ out = NotCalled
    /\ \E required \in BOOLEAN :
          out' = [Called("validate_compliance_labels",
                         validate_compliance_labels(resource, required))
                  EXCEPT !.fn = IF required THEN "validate_compliance_labels(required)"
                                ELSE @]
    /\ UNCHANGED <<resource, varsM, varsA, varsN, varsC>>

CallTraceability ==
    /\ out = NotCalled
    /\ out' = Called("validate_traceability", validate_traceability(resource))
    /\ UNCHANGED <<resource, varsM, varsA, varsN, varsC>>

CallNetworkPolicy ==
    /\ out = NotCalled
    /\ out' = Called("validate_network_policy", validate_network_policy(resource))
    /\ UNCHANGED <<resource, varsM, varsA, varsN, varsC>>

CallKyvernoPolicy ==
    /\ out = NotCalled
    /\ out' = Called("validate_kyverno_policy", validate_kyverno_policy(resource))
    /\ UNCHANGED <<resource, varsM, varsA, varsN, varsC>>

CallRbacResource ==
    /\ out = NotCalled
    /\ out' = Called("validate_rbac_resource", validate_rbac_resource(resource))
    /\ UNCHANGED <<resource, varsM, varsA, varsN, varsC>>

\* validate_manifest on the stream that holds this one document
CallValidateManifest ==
    /\ out = NotCalled
    /\ out' = LET res == validate_manifest(<<resource>>)
              IN [called |-> TRUE, fn |-> "validate_manifest", raised |-> res.raised,
                  is_valid |-> IF res.raised THEN FALSE ELSE res.is_valid,
                  errors |-> IF res.raised THEN <<>>
                             ELSE ConcatErrors(res.validation_results)]
    /\ UNCHANGED <<resource, varsM, varsA, varsN, varsC>>

NextResource ==
    \/ CallStructure
    \/ CallLabels
    \/ CallAnnotations
    \/ CallComplianceLabels
    \/ CallTraceability
    \/ CallNetworkPolicy
    \/ CallKyvernoPolicy
    \/ CallRbacResource
    \/ CallValidateManifest

SpecResource == InitResource /\ [][NextResource]_vars

----------------------------------------------------------------------------
(* extract_api_map on an OpenAPI document *)

V1 == <<"v", "1">>
V1BETA1 == <<"v", "1", "b", "e", "t", "a", "1">>
V1ALPHA1 == <<"v", "1", "a", "l", "p", "h", "a", "1">>
APPS == <<"a", "p", "p", "s">>
EXTENSIONS == <<"e", "x", "t", "e", "n", "s", "i", "o", "n", "s">>
ALPHA_IO == <<"a", "l", "p", "h", "a", ".", "i", "o">>
KYVERNO_IO == <<"k", "y", "v", "e", "r", "n", "o", ".", "i", "o">>

AppsV1 == OpSpec(Gvk(Str("Deployment"), Str(APPS), Str(V1)))
AppsV1Beta1 == OpSpec(Gvk(Str("Deployment"), Str(APPS), Str(V1BETA1)))
AppsV1Alpha1 == OpSpec(Gvk(Str("Deployment"), Str(APPS), Str(V1ALPHA1)))
ExtensionsV1Beta1 == OpSpec(Gvk(Str("Deployment"), Str(EXTENSIONS), Str(V1BETA1)))
AlphaIoV1 == OpSpec(Gvk(Str("Deployment"), Str(ALPHA_IO), Str(V1)))
CoreV1 == OpSpec(Gvk(Str("Deployment"), Absent, Str(V1)))
PodV1 == OpSpec(Gvk(Str("Pod"), Str(<<>>), Str(V1)))
KyvernoV1 == OpSpec(Gvk(Str("ClusterPolicy"), Str(KYVERNO_IO), Str(V1)))
WidgetV1 == OpSpec(Gvk(Str("Widget"), Str(APPS), Str(V1)))
NoKind == OpSpec(Gvk(Absent, Str(APPS), Str(V1)))
NoVersion == OpSpec(Gvk(Str("Deployment"), Str(APPS), Absent))
EmptyVersion == OpSpec(Gvk(Str("Deployment"), Str(APPS), Str(<<>>)))
NoAnnotation == OpSpec(Null)
EmptyAnnotation == OpSpec(EmptyGvk)

OpSpecs ==
    {AppsV1, AppsV1Beta1, AppsV1Alpha1, ExtensionsV1Beta1, AlphaIoV1, CoreV1,
     PodV1, KyvernoV1, WidgetV1, NoKind, NoVersion, EmptyVersion, NoAnnotation,
     EmptyAnnotation}

\* the details of one path: one annotated verb, two of them in either storage
\* order, or a value that is no mapping of verbs to dicts
DetailsValues ==
    {Details(<<<<"get", o>>>>) : o \in OpSpecs}
    \cup {Details(<<<<verb, AppsV1>>>>) : verb \in {"post", "put", "patch", "delete"}}
    \cup {Details(<<<<verbs[1], pair[1]>>, <<verbs[2], pair[2]>>>>) :
            verbs \in {<<"get", "post">>, <<"post", "get">>},
            pair \in {<<AppsV1Beta1, AppsV1>>, <<AppsV1, AppsV1Beta1>>,
                      <<AppsV1Beta1, ExtensionsV1Beta1>>,
                      <<ExtensionsV1Beta1, AppsV1Beta1>>}}
    \cup {Null, Str(<<"o", "o", "p", "s">>), Str(<<"p", "o", "s", "t">>),
          List(<<>>), List(<<"get">>), Details(<<<<"get", Null>>>>)}

MaxPaths == 2

SpecDocs ==
    {[has_paths |-> FALSE, paths |-> <<>>]}
    \cup {[has_paths |-> TRUE, paths |-> q] : q \in SeqsUpTo(DetailsValues, MaxPaths)}

InitApi ==
    /\ include_extended \in BOOLEAN
    /\ spec_doc \in SpecDocs
    /\ api_pc = "idle"
    /\ path_i = 1
    /\ op_i = 1
    /\ api_map = EmptyApiMap
    /\ api_result = NotCalled
    /\ ManifestIdle
    /\ ResourceIdle
    /\ NixIdle
    /\ ConfigIdle

\* line 183
ExtractCall ==
    /\ api_pc = "idle"
    /\ api_result = NotCalled
    /\ api_pc' = "extract_api_map"
    /\ api_map' = EmptyApiMap
    /\ path_i' = 1
    /\ op_i' = 1
    /\ UNCHANGED <<include_extended, spec_doc, api_result, varsM, varsR, varsN, varsC>>

\* lines 187-218 for one verb of one path
ExamineOperation ==
    /\ api_pc = "extract_api_map"
    /\ path_i <= Len(PathsOf(spec_doc))
    /\ LET details == PathsOf(spec_doc)[path_i]
           operation == Operations[op_i]
       IN IF ExamineRaises(details, operation)
          THEN /\ api_pc' = "idle"
               /\ api_result' = CallRaised
               /\ UNCHANGED <<path_i, op_i, api_map>>
          ELSE /\ api_map' = Observe(api_map, GvkAt(details, operation),
                                     all_kinds(include_extended))
               /\ IF op_i < Len(Operations)
                  THEN op_i' = op_i + 1 /\ path_i' = path_i
                  ELSE op_i' = 1 /\ path_i' = path_i + 1
               /\ UNCHANGED <<api_pc, api_result>>
    /\ UNCHANGED <<include_extended, spec_doc, varsM, varsR, varsN, varsC>>

\* line 220
ExtractReturn ==
    /\ api_pc = "extract_api_map"
    /\ path_i > Len(PathsOf(spec_doc))
    /\ api_pc' = "idle"
    /\ api_result' = [called |-> TRUE, raised |-> FALSE, api_map |-> api_map]
    /\ UNCHANGED <<include_extended, spec_doc, path_i, op_i, api_map, varsM, varsR, varsN, varsC>>

NextApi ==
    \/ ExtractCall
    \/ ExamineOperation
    \/ ExtractReturn

SpecApi == InitApi /\ [][NextApi]_vars

----------------------------------------------------------------------------
(* generate_nix_code on the maps main collects, then resolveApiVersion of
   the generated code *)

\* the versions given to --download, and one that is never given
Versions == {"1.28", "1.29", "1.30"}
QueriedVersions == Versions \cup {"1.31"}

\* the maps extract_api_map returns for three documents
MapOf(paths) == extract_api_map([has_paths |-> TRUE, paths |-> paths], TRUE)
VersionMaps ==
    {MapOf(<<>>),
     MapOf(<<Details(<<<<"get", AppsV1>>>>)>>),
     MapOf(<<Details(<<<<"get", AppsV1Beta1>>>>), Details(<<<<"get", PodV1>>>>)>>)}

QueriedKinds == {"Deployment", "Pod", "Widget"}

\* api_maps holds the versions that were parsed; k8s_versions is taken
\* without repetitions (its order is immaterial: line 311 sorts it)
InitMatrix ==
    /\ api_maps \in UNION {[S -> VersionMaps] : S \in SUBSET Versions}
    /\ k8s_versions \in SUBSET Versions
    /\ nix_pc = "idle"
    /\ apiVersionMatrix = <<>>
    /\ resolved = NotResolved
    /\ ManifestIdle
    /\ ResourceIdle
    /\ ApiIdle
    /\ ConfigIdle

\* lines 294-355
GenerateNixCode ==
    /\ nix_pc = "idle"
    /\ nix_pc' = "generated"
    /\ apiVersionMatrix' = generate_nix_code(api_maps, k8s_versions)
    /\ UNCHANGED <<api_maps, k8s_versions, resolved, varsM, varsR, varsA, varsC>>

\* lines 334-340, evaluated on { kind, kubernetesVersion }
ResolveApiVersion ==
    /\ nix_pc = "generated"
    /\ resolved = NotResolved
    /\ \E kind \in QueriedKinds, kubernetesVersion \in QueriedVersions :
          resolved' = [called |-> TRUE, kind |-> kind,
                       kubernetesVersion |-> kubernetesVersion,
                       outcome |-> resolveApiVersion(apiVersionMatrix, kind,
                                                     kubernetesVersion)]
    /\ UNCHANGED <<api_maps, k8s_versions, nix_pc, apiVersionMatrix, varsM, varsR, varsA, varsC>>

NextMatrix ==
    \/ GenerateNixCode
    \/ ResolveApiVersion

SpecMatrix == InitMatrix /\ [][NextMatrix]_vars

----------------------------------------------------------------------------
(* ConfigurationValidator (src/validation.py) *)

ErrorLevel ==
    [INFO |-> "info", WARNING |-> "warning", ERROR |-> "error", CRITICAL |-> "critical"]

ErrorCode ==
    [CONFIG_NOT_FOUND |-> "E001", INVALID_CONFIG |-> "E002", SYNTAX_ERROR |-> "E003",
     VALIDATION_FAILED |-> "E004", PERMISSION_DENIED |-> "E007", UNKNOWN_ERROR |-> "E999"]

\* the two classes the module names ValidationError: the dataclass of lines
\* 38-48 and the exception of lines 281-288, each with the keyword parameters
\* its constructor takes and those it cannot do without
DataclassValidationError ==
    [cls |-> "dataclass",
     params |-> {"code", "level", "message", "file", "line", "column", "suggestion",
                 "context"},
     required |-> {"code", "level", "message"}]
ExceptionValidationError ==
    [cls |-> "exception", params |-> {"message"}, required |-> {"message"}]

\* the class statements that bind the name, in the order the module runs them
ValidationErrorBindings == <<DataclassValidationError, ExceptionValidationError>>

\* what the global name ValidationError refers to when _add_error looks it
\* up: the last binding
ValidationError == ValidationErrorBindings[Len(ValidationErrorBindings)]

\* cls(**kwargs) raises TypeError on an unexpected or a missing keyword
ConstructRaises(cls, kwargs) ==
    \/ ~(DOMAIN kwargs \subseteq cls.params)
    \/ ~(cls.required \subseteq DOMAIN kwargs)

\* the code and the level of the object cls(**kwargs); the exception takes
\* them from NixernetesException.__init__ (lines 260-263, 285-288)
Construct(cls, kwargs) ==
    IF cls.cls = "dataclass"
    THEN [code |-> kwargs.code, level |-> kwargs.level]
    ELSE [code |-> ErrorCode.VALIDATION_FAILED, level |-> ErrorLevel.ERROR]

\* _add_error on the lists errs and warns
_add_error(errs, warns, kwargs) ==
    IF ConstructRaises(ValidationError, kwargs)
    THEN [raised |-> TRUE, errors |-> errs, warnings |-> warns]
    ELSE LET error == Construct(ValidationError, kwargs)
         IN IF error.level = ErrorLevel.ERROR \/ error.level = ErrorLevel.CRITICAL
            THEN [raised |-> FALSE, errors |-> Append(errs, error), warnings |-> warns]
            ELSE [raised |-> FALSE, errors |-> errs, warnings |-> Append(warns, error)]

\* the keyword arguments of a call of _add_error
Kwargs(code, level, others) ==
    [k \in {"code", "level", "message"} \cup others |->
        IF k = "code" THEN code ELSE IF k = "level" THEN level ELSE k]

\* how a stretch of validate_file ends: it raises, returns value, or goes on
Outcome(kind, value, a) ==
    [kind |-> kind, value |-> value, errors |-> a.errors, warnings |-> a.warnings]

\* _add_error(...) followed by `return False`
AddThenReturnFalse(a) ==
    IF a.raised THEN Outcome("raise", FALSE, a) ELSE Outcome("return", FALSE, a)

\* the lines of a file, by what _check_syntax and strip() see in them
Lines == {"blank", "plain", "unclosed", "semicolon", "comment"}
Unclosed(line) == line = "unclosed"
EndsWithSemicolon(line) == line \in {"semicolon", "comment"}
IsComment(line) == line = "comment"
Stripped(content) == SelectSeq(content, LAMBDA line : line # "blank")

\* lines 104-149
FileChecks(strict, f, errs, warns) ==
    IF ~f.exists
    THEN AddThenReturnFalse(
            _add_error(errs, warns,
                       Kwargs(ErrorCode.CONFIG_NOT_FOUND, ErrorLevel.ERROR,
                              {"file", "suggestion"})))
    ELSE IF ~f.readable
    THEN AddThenReturnFalse(
            _add_error(errs, warns,
                       Kwargs(ErrorCode.PERMISSION_DENIED, ErrorLevel.ERROR,
                              {"file", "suggestion"})))
    ELSE LET a == IF f.nix
                  THEN [raised |-> FALSE, errors |-> errs, warnings |-> warns]
                  ELSE _add_error(errs, warns,
                                  Kwargs(ErrorCode.INVALID_CONFIG, ErrorLevel.WARNING,
                                         {"file", "suggestion"}))
         IN IF a.raised THEN Outcome("raise", FALSE, a)
            ELSE IF ~f.nix /\ strict THEN Outcome("return", FALSE, a)
            ELSE IF Stripped(f.content) = <<>>
            THEN AddThenReturnFalse(
                    _add_error(a.errors, a.warnings,
                               Kwargs(ErrorCode.INVALID_CONFIG, ErrorLevel.ERROR,
                                      {"file", "suggestion"})))
            ELSE Outcome("continue", FALSE, a)

\* lines 171-192 for one line
LineChecks(line, errs, warns) ==
    LET a == IF Unclosed(line)
             THEN _add_error(errs, warns,
                             Kwargs(ErrorCode.SYNTAX_ERROR, ErrorLevel.ERROR,
                                    {"file", "line", "context", "suggestion"}))
             ELSE [raised |-> FALSE, errors |-> errs, warnings |-> warns]
    IN IF a.raised THEN Outcome("raise", FALSE, a)
       ELSE IF EndsWithSemicolon(line) /\ ~IsComment(line)
       THEN LET b == _add_error(a.errors, a.warnings,
                                Kwargs(ErrorCode.SYNTAX_ERROR, ErrorLevel.WARNING,
                                       {"file", "line", "context", "suggestion"}))
            IN IF b.raised THEN Outcome("raise", FALSE, b)
               ELSE Outcome("continue", FALSE, b)
       ELSE Outcome("continue", FALSE, a)

\* the except clause of lines 156-163: an exception raised in it leaves
\* validate_file
Handled(o) ==
    IF o.kind # "raise" THEN o
    ELSE LET h == _add_error(o.errors, o.warnings,
                             Kwargs(ErrorCode.UNKNOWN_ERROR, ErrorLevel.CRITICAL,
                                    {"file"}))
         IN IF h.raised THEN Outcome("raise", FALSE, h)
            ELSE Outcome("return", FALSE, h)

\* line 154
NoErrorLevel(errs) == \A j \in 1..Len(errs) : errs[j].level # ErrorLevel.ERROR

FileCalled(o) == [called |-> TRUE, raised |-> o.kind = "raise", value |-> o.value]

MaxLines == 2

Files ==
    [exists : BOOLEAN, readable : BOOLEAN, nix : BOOLEAN,
     content : SeqsUpTo(Lines, MaxLines)]

\* lines 95-98, and the file system validate_file meets
InitConfig ==
    /\ self_strict \in BOOLEAN
    /\ self_errors = <<>>
    /\ self_warnings = <<>>
    /\ filepath \in Files
    /\ cfg_pc = "idle"
    /\ line_no = 1
    /\ file_result = FileNotCalled
    /\ ManifestIdle
    /\ ResourceIdle
    /\ ApiIdle
    /\ NixIdle

\* what an outcome leaves behind
Leave(o) ==
    /\ self_errors' = o.errors
    /\ self_warnings' = o.warnings
    /\ IF o.kind = "continue"
       THEN cfg_pc' = "_check_syntax" /\ UNCHANGED file_result
       ELSE cfg_pc' = "idle" /\ file_result' = FileCalled(o)

\* lines 102-152, up to the call of _check_syntax
ValidateFileCall ==
    /\ cfg_pc = "idle"
    /\ file_result = FileNotCalled
    /\ Leave(Handled(FileChecks(self_strict, filepath, self_errors, self_warnings)))
    /\ line_no' = 1
    /\ UNCHANGED <<self_strict, filepath, varsM, varsR, varsA, varsN>>

\* one iteration of the loop of lines 169-192
CheckSyntaxStep ==
    /\ cfg_pc = "_check_syntax"
    /\ line_no <= Len(filepath.content)
    /\ Leave(Handled(LineChecks(filepath.content[line_no], self_errors, self_warnings)))
    /\ line_no' = line_no + 1
    /\ UNCHANGED <<self_strict, filepath, varsM, varsR, varsA, varsN>>

\* line 154
ValidateFileReturn ==
    /\ cfg_pc = "_check_syntax"
    /\ line_no > Len(filepath.content)
    /\ cfg_pc' = "idle"
    /\ file_result' = [called |-> TRUE, raised |-> FALSE,
                       value |-> NoErrorLevel(self_errors)]
    /\ UNCHANGED <<self_strict, self_errors, self_warnings, filepath, line_no,
                   varsM, varsR, varsA, varsN>>

NextConfig ==
    \/ ValidateFileCall
    \/ CheckSyntaxStep
    \/ ValidateFileReturn

SpecConfig == InitConfig /\ [][NextConfig]_vars

----------------------------------------------------------------------------
(* Claims about the ordering walk *)

Priorities(rs) == [j \in 1..Len(rs) |-> PriorityOf(rs[j])]
NonDecreasing(q) == \A j \in 1..(Len(q) - 1) : q[j] <= q[j + 1]
OrderingReturned == ordering_result.called /\ ~ordering_result.raised
InOrderingLoop == pc = "validate_resource_ordering" /\ i <= Len(resources)

\* C1: validate_resource_ordering returns is_ordered = true iff the priorities
\* of the bundle's documents (a kind outside the table, or no kind, counted as
\* 99) are non-decreasing.
C1_OrderedIffNonDecreasing ==
    OrderingReturned =>
        (ordering_result.is_ordered
            <=> NonDecreasing(Priorities(parse_yaml_manifest(yaml_content))))

\* an unordered bundle of three documents, one of them without a kind
C1_Witness ==
    /\ OrderingReturned
    /\ ~ordering_result.is_ordered
    /\ Len(resources) = 3
    /\ \E j \in 1..Len(resources) : ~In("kind", resources[j])

\* the walk's steps: the call sets the baseline, an iteration examines
\* resources[i]
WalkStarts == pc = "idle" /\ pc' = "validate_resource_ordering"
WalkExamines == InOrderingLoop /\ i' = i + 1
EmitsViolation == Len(ordering_issues') = Len(ordering_issues) + 1
EmitsNothing == ordering_issues' = ordering_issues

\* C2 (as amended): previous_priority starts below every priority; a violation
\* is emitted for a document exactly when its priority is strictly less than
\* previous_priority; previous_priority is set to the document's priority on
\* every document, a violating one included.
C2_WalkAdvancesOnEveryDocument ==
    [][/\ WalkStarts =>
            /\ \A k \in DOMAIN resource_priority : prev_priority' < resource_priority[k]
            /\ prev_priority' < UnknownPriority
       /\ WalkExamines =>
            LET priority == PriorityOf(resources[i])
            IN /\ IF priority < prev_priority THEN EmitsViolation ELSE EmitsNothing
               /\ prev_priority' = priority]_vars

\* C2 as stated: previous_priority advances only on a document that is not a
\* violation.
C2_AdvancesOnlyWithoutViolation ==
    [][/\ WalkStarts =>
            /\ \A k \in DOMAIN resource_priority : prev_priority' < resource_priority[k]
            /\ prev_priority' < UnknownPriority
       /\ WalkExamines =>
            LET priority == PriorityOf(resources[i])
            IN /\ IF priority < prev_priority THEN EmitsViolation ELSE EmitsNothing
               /\ prev_priority' = IF priority < prev_priority
                                   THEN prev_priority ELSE priority]_vars

\* a violation has just been emitted and the next document lies between the
\* violating priority and the baseline the violation was measured against
C2_Witness ==
    /\ InOrderingLoop
    /\ i > 1
    /\ Len(ordering_issues) > 0
    /\ LET last == ordering_issues[Len(ordering_issues)]
       IN /\ last.index = i - 2
          /\ prev_priority = last.priority
          /\ PriorityOf(resources[i]) >= prev_priority
          /\ PriorityOf(resources[i]) < last.prev_priority

----------------------------------------------------------------------------
(* Claims about validate_manifest *)

ManifestReturned == result.called /\ ~result.raised

\* metadata.namespace is set: the key is there and its value is not empty
NamespaceSet(r) ==
    /\ In("metadata", r)
    /\ IsDict(Item(r, "metadata"))
    /\ In("namespace", Item(r, "metadata"))
    /\ Item(Item(r, "metadata"), "namespace") \notin {Null, Str("")}

NamespaceDocNamed(rs, ns) ==
    \E k \in 1..Len(rs) :
        /\ In("kind", rs[k]) /\ Item(rs[k], "kind") = Str("Namespace")
        /\ In("metadata", rs[k]) /\ In("name", Item(rs[k], "metadata"))
        /\ Item(Item(rs[k], "metadata"), "name") = ns

\* the positions of the documents that reference an undeclared namespace
DanglingPositions(rs) ==
    {j \in 1..Len(rs) :
        /\ NamespaceSet(rs[j])
        /\ Item(Item(rs[j], "metadata"), "namespace") # Str("default")
        /\ ~NamespaceDocNamed(rs, Item(Item(rs[j], "metadata"), "namespace"))}

\* C3: validate_manifest emits exactly one bundle-level finding for each
\* document whose metadata.namespace is set, is not "default" and is not the
\* name of a Namespace document of the bundle, in document order, and none for
\* any other document; [Namespace ns-a, Deployment in ns-a, NetworkPolicy in
\* ns-b] gets exactly one, for the NetworkPolicy.
C3_DanglingNamespaceFindings ==
    ManifestReturned =>
        LET rs == parse_yaml_manifest(yaml_content)
            dangling == DanglingPositions(rs)
            found == result.manifest_errors
            nth(j) == Cardinality({k \in dangling : k <= j})
        IN /\ Len(found) = Cardinality(dangling)
           /\ \A j \in dangling :
                 /\ found[nth(j)].kind = Get(rs[j], "kind")
                 /\ found[nth(j)].name = MetadataGet(rs[j], "name", Null)
                 /\ found[nth(j)].ns = Item(Item(rs[j], "metadata"), "namespace")
           /\ yaml_content = <<NamespaceA, DeploymentA, NetworkPolicyB>> =>
                 /\ Len(found) = 1
                 /\ found[1].kind = Str("NetworkPolicy")

\* the scenario's bundle has been validated
C3_Witness ==
    /\ ManifestReturned
    /\ yaml_content = <<NamespaceA, DeploymentA, NetworkPolicyB>>
    /\ Len(result.manifest_errors) = 1

\* C4: the result's is_valid is true iff there is no bundle-level finding and
\* every per-resource result is valid, and a per-resource result is valid iff
\* its finding list is empty.
C4_ValidIffNoFindings ==
    ManifestReturned =>
        /\ result.is_valid <=>
              /\ Len(result.manifest_errors) = 0
              /\ \A j \in 1..Len(result.validation_results) :
                    result.validation_results[j].is_valid
        /\ \A j \in 1..Len(result.validation_results) :
              result.validation_results[j].is_valid
                  <=> Len(result.validation_results[j].errors) = 0

\* every resource is valid and a bundle-level finding alone makes the bundle
\* invalid
C4_Witness ==
    /\ ManifestReturned
    /\ ~result.is_valid
    /\ Len(result.validation_results) >= 2
    /\ \A j \in 1..Len(result.validation_results) :
          result.validation_results[j].is_valid

----------------------------------------------------------------------------
(* Claims about the validators of one resource *)

Reports(msg) == \E j \in 1..Len(out.errors) : out.errors[j].msg = msg
StructureReturned ==
    out.called /\ out.fn = "validate_resource_structure" /\ ~out.raised

\* C5: no validator and no validate_manifest call raises, whatever the
\* document's metadata, labels, annotations or spec are.
C5_ValidatorsNeverRaise == out.called => ~out.raised

MetadataIsMapping(r) == In("metadata", r) /\ IsDict(Item(r, "metadata"))
NameAbsent(r) == ~(MetadataIsMapping(r) /\ In("name", Item(r, "metadata")))

\* C6 (as amended): when validate_resource_structure returns, it reports the
\* missing-kind finding iff kind is absent, the missing-apiVersion finding iff
\* apiVersion is absent, and the missing-name finding iff metadata is a mapping
\* without name; a resource without metadata gets the missing-metadata finding
\* in its place.
C6_MissingFieldFindings ==
    StructureReturned =>
        /\ Reports("Missing required field: kind") <=> ~In("kind", resource)
        /\ Reports("Missing required field: apiVersion") <=> ~In("apiVersion", resource)
        /\ Reports("metadata.name is required")
              <=> (MetadataIsMapping(resource) /\ NameAbsent(resource))
        /\ Reports("Missing required field: metadata") <=> ~In("metadata", resource)

\* C6 as stated: the missing-name finding is reported whenever metadata.name is
\* absent, whichever other fields are missing.
C6_MissingNameWheneverAbsent ==
    StructureReturned =>
        /\ Reports("Missing required field: kind") <=> ~In("kind", resource)
        /\ Reports("Missing required field: apiVersion") <=> ~In("apiVersion", resource)
        /\ Reports("metadata.name is required") <=> NameAbsent(resource)

\* kind, apiVersion and metadata.name are all missing and all three are reported
C6_Witness ==
    /\ StructureReturned
    /\ ~In("kind", resource) /\ ~In("apiVersion", resource)
    /\ MetadataIsMapping(resource) /\ NameAbsent(resource)
    /\ Len(out.errors) = 3

----------------------------------------------------------------------------
(* Claims about extract_api_map *)

ApiReturned == api_result.called /\ ~api_result.raised

\* the retained annotations of the document, and those of one kind
RetainedTriples ==
    LET obs == Observations(PathsOf(spec_doc))
    IN {obs[j] : j \in {k \in 1..Len(obs) : Retained(obs[k], all_kinds(include_extended))}}
TriplesOf(kind) == {t \in RetainedTriples : t.kind.v = kind}

\* the stability tier of a triple: by its version string
VersionTier(t) == get_priority(t.version.v)

\* C7: for the retained triples of one kind, the apiVersion resolved for the
\* kind is that of a triple of the most stable tier present among them,
\* whatever their order in the input.
C7_ResolvesMostStableTier ==
    ApiReturned =>
        \A kind \in DOMAIN api_result.api_map :
            \E t \in TriplesOf(kind) :
                /\ ApiVersionAt(t) = api_result.api_map[kind]
                /\ \A u \in TriplesOf(kind) : VersionTier(u) <= VersionTier(t)

IndexPermutations(n) == {f \in [1..n -> 1..n] : \A a, b \in 1..n : f[a] = f[b] => a = b}
Reordered(doc, f) == [doc EXCEPT !.paths = [j \in 1..Len(doc.paths) |-> doc.paths[f[j]]]]
Reorderings(doc) == {Reordered(doc, f) : f \in IndexPermutations(Len(doc.paths))}

\* C8 as stated: every reordering of the input yields the same map.
C8_SameMapForEveryOrder ==
    ApiReturned =>
        \A other \in Reorderings(spec_doc) :
            extract_api_map(other, include_extended) = api_result.api_map

MaxOf(S) == CHOOSE x \in S : \A y \in S : y <= x

\* C8 (as amended): every reordering of the input yields a map with the same
\* kinds and, for each kind, an apiVersion of the same stability rank: the
\* best rank among the kind's retained triples, as _is_more_stable ranks their
\* apiVersion strings. Which of several best-ranked apiVersions is returned
\* depends on the order (the first seen is kept).
C8_SameKindsAndRanksForEveryOrder ==
    ApiReturned =>
        LET map == api_result.api_map
        IN /\ DOMAIN map = {t.kind.v : t \in RetainedTriples}
           /\ \A kind \in DOMAIN map :
                 /\ map[kind] \in {ApiVersionAt(t) : t \in TriplesOf(kind)}
                 /\ get_priority(map[kind])
                       = MaxOf({get_priority(ApiVersionAt(t)) : t \in TriplesOf(kind)})
           /\ \A other \in Reorderings(spec_doc) :
                 LET map2 == extract_api_map(other, include_extended)
                 IN /\ DOMAIN map2 = DOMAIN map
                    /\ \A kind \in DOMAIN map :
                          get_priority(map2[kind]) = get_priority(map[kind])

\* a document whose reordering resolves another apiVersion of the same rank
C8_Witness ==
    /\ ApiReturned
    /\ \E other \in Reorderings(spec_doc) :
          LET map2 == extract_api_map(other, include_extended)
          IN \E kind \in DOMAIN api_result.api_map :
                /\ map2[kind] # api_result.api_map[kind]
                /\ get_priority(map2[kind]) = get_priority(api_result.api_map[kind])

\* the accumulation in which only the version strings are ranked: the triple
\* kept for each kind
KeepByVersionRank(kept, t) ==
    IF t.kind.v \notin DOMAIN kept THEN (t.kind.v :> t) @@ kept
    ELSE IF VersionTier(t) > VersionTier(kept[t.kind.v])
         THEN [kept EXCEPT ![t.kind.v] = t]
    ELSE kept

RECURSIVE KeptByVersionRank(_, _)
KeptByVersionRank(kept, obs) ==
    IF obs = <<>> THEN kept
    ELSE KeptByVersionRank(
             IF Retained(Head(obs), all_kinds(include_extended))
             THEN KeepByVersionRank(kept, Head(obs)) ELSE kept,
             Tail(obs))

\* C9: which triple is kept for a kind is decided by the presence of "alpha" /
\* "beta" in the version strings alone; the group names have no influence.
C9_GroupHasNoInfluence ==
    ApiReturned =>
        LET kept == KeptByVersionRank(<<>>, Observations(PathsOf(spec_doc)))
        IN api_result.api_map = [kind \in DOMAIN kept |-> ApiVersionAt(kept[kind])]

\* one verb of one path is examined and the walk goes on
Examines == api_pc = "extract_api_map" /\ api_pc' = "extract_api_map"
             /\ <<path_i, op_i>> # <<path_i', op_i'>>

----------------------------------------------------------------------------
(* Claims about the determinism, the filtering and the failures of
   extract_api_map *)

\* the same details with its verbs stored in any other order
ItemOrders(d) ==
    IF d.t = "omap"
    THEN {Details([j \in 1..Len(d.items) |-> d.items[f[j]]]) :
             f \in IndexPermutations(Len(d.items))}
    ELSE {d}

\* the documents that differ from doc in the storage order of verbs only
VerbReorderings(doc) ==
    LET n == Len(doc.paths)
        all == UNION {ItemOrders(doc.paths[j]) : j \in 1..n}
    IN {[doc EXCEPT !.paths = q] :
           q \in {r \in [1..n -> all] : \A j \in 1..n : r[j] \in ItemOrders(doc.paths[j])}}

\* C11: the map a call returns is the map extract_api_map computes from the
\* document alone (a second run yields the same map), and it is the map of
\* every document that differs only in the order in which the verbs of a path
\* are stored: the verbs are scanned as post, get, put, patch, delete.
C11_SameMapForEveryVerbStorageOrder ==
    ApiReturned =>
        /\ api_result.api_map = extract_api_map(spec_doc, include_extended)
        /\ \A other \in VerbReorderings(spec_doc) :
              /\ ~PathsRaise(PathsOf(other))
              /\ extract_api_map(other, include_extended) = api_result.api_map

\* a path that stores get before post, both retained and of one rank: the
\* entry is the one of post
C11_Witness ==
    /\ ApiReturned
    /\ PathsOf(spec_doc) =
          <<Details(<<<<"get", AppsV1Beta1>>, <<"post", ExtensionsV1Beta1>>>>)>>
    /\ api_result.api_map = ("Deployment" :> ApiVersionAt(ExtensionsV1Beta1.gvk))

\* the allow-list in force
AllowList == CORE_KINDS \cup (IF include_extended THEN EXTENDED_KINDS ELSE {})

\* an annotation without a kind, or without a version, or with version ""
Incomplete(gvk) ==
    /\ gvk # Null
    /\ \/ gvk.kind = Absent
       \/ gvk.version = Absent
       \/ gvk.version.t = "str" /\ Len(gvk.version.v) = 0

\* C12: every key of the map, at every step and so in the map returned, is a
\* kind of the allow-list in force (the extended kinds only with
\* include_extended), and examining an annotation without a kind or without a
\* non-empty version leaves the map as it is.
C12_AllowedKindsCompleteAnnotations ==
    [][/\ DOMAIN api_map' \subseteq AllowList'
       /\ (api_result'.called /\ ~api_result'.raised) =>
             DOMAIN api_result'.api_map \subseteq AllowList'
       /\ (Examines /\ Incomplete(GvkAt(PathsOf(spec_doc)[path_i], Operations[op_i]))) =>
             api_map' = api_map]_vars

\* without the extended kinds: a ClusterPolicy annotation and one with an
\* empty version have been examined and the map is empty
C12_Witness ==
    /\ ApiReturned
    /\ ~include_extended
    /\ PathsOf(spec_doc) =
          <<Details(<<<<"get", KyvernoV1>>>>), Details(<<<<"get", EmptyVersion>>>>)>>
    /\ api_result.api_map = EmptyApiMap

\* the details of a path is a mapping of verbs to operation dicts
WellFormedDetails(d) ==
    d.t = "omap" /\ \A j \in 1..Len(d.items) : d.items[j][2].t = "map"

\* the malformed input of C13: the paths key is missing, or the details of a
\* path is null, a string or a list
MalformedOnlyAsTolerated(doc) ==
    \A j \in 1..Len(PathsOf(doc)) :
        \/ WellFormedDetails(PathsOf(doc)[j])
        \/ PathsOf(doc)[j].t \in {"null", "str", "list"}

\* the paths whose details is a mapping
RECURSIVE MappingsOf(_)
MappingsOf(paths) ==
    IF paths = <<>> THEN <<>>
    ELSE (IF Head(paths).t = "omap" THEN <<Head(paths)>> ELSE <<>>)
            \o MappingsOf(Tail(paths))

\* C13: on a document without paths, or with a path whose details is null, a
\* string or a list, extract_api_map does not raise: it returns the map of
\* the remaining paths.
C13_MalformedInputTolerated ==
    (MalformedOnlyAsTolerated(spec_doc) /\ api_result # NotCalled) =>
        /\ api_result # CallRaised
        /\ api_result.api_map =
              Fold(EmptyApiMap, Observations(MappingsOf(PathsOf(spec_doc))),
                   all_kinds(include_extended))

\* the annotations of the document, by path and verb
AnnotationsAt(doc) ==
    {jk \in (1..Len(PathsOf(doc))) \X (1..Len(Operations)) :
        GvkAt(PathsOf(doc)[jk[1]], Operations[jk[2]]) # Null}

\* the group of a triple, "" when the annotation has none
GroupOf(gvk) == IF gvk.group = Absent THEN <<>> ELSE gvk.group.v

\* C14: for a document that carries the single triple (K, G, v) with K in the
\* allow-list, the map returned is {K: "G/v"} when G is non-empty and
\* {K: "v"}, without a slash, when G is empty.
C14_SingleTripleRoundTrip ==
    (ApiReturned /\ Cardinality(AnnotationsAt(spec_doc)) = 1) =>
        LET jk == CHOOSE x \in AnnotationsAt(spec_doc) : TRUE
            gvk == GvkAt(PathsOf(spec_doc)[jk[1]], Operations[jk[2]])
        IN (~Incomplete(gvk) /\ gvk.kind.v \in AllowList) =>
              /\ DOMAIN api_result.api_map = {gvk.kind.v}
              /\ IF GroupOf(gvk) # <<>>
                 THEN api_result.api_map[gvk.kind.v]
                         = GroupOf(gvk) \o <<"/">> \o gvk.version.v
                 ELSE /\ api_result.api_map[gvk.kind.v] = gvk.version.v
                      /\ ~Contains(api_result.api_map[gvk.kind.v], <<"/">>)

\* the single triple (Pod, "", v1) has been resolved to "v1"
C14_Witness ==
    /\ ApiReturned
    /\ PathsOf(spec_doc) = <<Details(<<<<"get", PodV1>>>>)>>
    /\ api_result.api_map = ("Pod" :> V1)

----------------------------------------------------------------------------
(* Claims about resolveApiVersion *)

\* the entry of the matrix for a version and a kind, when there is one
HasEntry(version, kind) ==
    /\ version \in k8s_versions
    /\ version \in DOMAIN api_maps
    /\ kind \in DOMAIN api_maps[version]

\* C15: resolveApiVersion returns the matrix entry when the version was built
\* and has an entry for the kind; it throws the unsupported-version failure
\* when the version was never built, whatever the kind, and the unknown-kind
\* failure when the version was built and has no entry for the kind; the two
\* failures differ, and each is a throw, not a returned value or finding.
C15_ResolveOrFail ==
    resolved.called =>
        LET version == resolved.kubernetesVersion
            kind == resolved.kind
        IN /\ HasEntry(version, kind) =>
                 resolved.outcome = NixValue(api_maps[version][kind])
           /\ version \notin k8s_versions =>
                 resolved.outcome = UnsupportedVersion
           /\ (version \in k8s_versions /\ ~HasEntry(version, kind)) =>
                 resolved.outcome = UnknownKind
           /\ UnsupportedVersion # UnknownKind
           /\ UnsupportedVersion.t = "throw" /\ UnknownKind.t = "throw"
           /\ result = NotCalled /\ out = NotCalled

\* a version that was parsed but not handed to generate_nix_code is
\* unsupported, for a kind its map holds
C15_Witness ==
    /\ resolved.called
    /\ resolved.kubernetesVersion = "1.29" /\ resolved.kind = "Deployment"
    /\ k8s_versions = {"1.28"}
    /\ "1.29" \in DOMAIN api_maps /\ "Deployment" \in DOMAIN api_maps["1.29"]
    /\ resolved.outcome = UnsupportedVersion

----------------------------------------------------------------------------
(* Claims about the orchestration of validate_manifest *)

\* validate_manifest has returned for the stream that holds `resource` alone
ManifestOfOneReturned ==
    out.called /\ out.fn = "validate_manifest" /\ ~out.raised

LabelsPresent(r) == In("labels", GetOr(r, "metadata", EmptyMap))

ComplianceFindings(r) ==
    IF LabelsPresent(r) THEN validate_compliance_labels(r, FALSE).errors ELSE <<>>

PolicyFindings(r) ==
    validate_network_policy(r).errors \o validate_kyverno_policy(r).errors
        \o validate_rbac_resource(r).errors

ComplianceMessages ==
    {"Required label missing: nixernetes.io/framework", "Invalid framework",
     "Invalid compliance level"}

\* C16 as stated: the findings of a document are its structural findings,
\* then its compliance findings, then those of the policy validators.
C16_StructuralCompliancePolicy ==
    ManifestOfOneReturned =>
        out.errors = validate_resource_structure(resource).errors
                        \o ComplianceFindings(resource) \o PolicyFindings(resource)

\* C16 (as amended): the findings of a document are, in this order, those of
\* validate_resource_structure, of validate_labels, of validate_annotations,
\* of validate_compliance_labels when metadata has a labels key, and of the
\* three policy validators; a document without labels has no compliance
\* finding.
C16_FindingsInValidatorOrder ==
    ManifestOfOneReturned =>
        /\ out.errors = validate_resource_structure(resource).errors
                           \o validate_labels(resource).errors
                           \o validate_annotations(resource).errors
                           \o ComplianceFindings(resource)
                           \o PolicyFindings(resource)
        /\ ~LabelsPresent(resource) =>
              \A j \in 1..Len(out.errors) : out.errors[j].msg \notin ComplianceMessages

\* the resource with a finding of every layer has been validated
C16_Witness ==
    /\ ManifestOfOneReturned
    /\ resource = MixedFindings
    /\ Len(out.errors) = 5
    /\ out.errors[2].msg = "annotations must be a dictionary"
    /\ out.errors[3].msg = "Invalid compliance level"

IsDocument(d) == d # Null

\* the documents of the bundle, in bundle order
Documents == SelectSeq(yaml_content, IsDocument)

\* every finding of every validator for one document
AllFindings(r) ==
    validate_resource_structure(r).errors \o validate_labels(r).errors
        \o validate_annotations(r).errors \o ComplianceFindings(r) \o PolicyFindings(r)

\* C17: a call of validate_manifest that returns has one per-resource result
\* for every document of the bundle, in bundle order, each with the findings of
\* every validator, and the findings of the namespace check over the whole
\* bundle, however many findings earlier documents or validators produced.
C17_NoDocumentNoRuleSkipped ==
    ManifestReturned =>
        /\ Len(result.validation_results) = Len(Documents)
        /\ \A j \in 1..Len(Documents) :
              /\ result.validation_results[j].kind = GetOr(Documents[j], "kind", Str("Unknown"))
              /\ result.validation_results[j].name
                    = MetadataGet(Documents[j], "name", Str("unnamed"))
              /\ result.validation_results[j].errors = AllFindings(Documents[j])
        /\ Len(result.manifest_errors) = Cardinality(DanglingPositions(Documents))

\* three documents with findings, the last two with a dangling namespace: all
\* three have their result and both bundle-level findings are there
C17_Witness ==
    /\ ManifestReturned
    /\ yaml_content = <<NoKindNoName, NetworkPolicyBare, NetworkPolicyB>>
    /\ Len(result.validation_results) = 3
    /\ Len(result.validation_results[1].errors) >= 2
    /\ Len(result.validation_results[2].errors) >= 2
    /\ Len(result.manifest_errors) = 2

----------------------------------------------------------------------------
(* Claims about null entries and indices *)

\* C18: the None entries of the source sequence (an empty or null YAML
\* document) are dropped before validation: the list that is walked holds
\* none, a None entry has no per-resource result and no finding, it is not
\* counted in resource_count, and the ordering walk gives it no priority.
C18_NullEntriesDropped ==
    /\ \A j \in 1..Len(resources) : resources[j] # Null
    /\ ManifestReturned =>
          /\ result.resource_count = Len(Documents)
          /\ Len(result.validation_results) = Len(Documents)
          /\ Len(result.manifest_errors) <= Len(Documents)
    /\ OrderingReturned =>
          /\ ordering_result.resource_count = Len(Documents)
          /\ ordering_result.is_ordered <=> NonDecreasing(Priorities(Documents))
          /\ Len(ordering_result.ordering_issues) <= Len(Documents)

\* a bundle with a None entry in front of a Namespace, both calls returned:
\* one resource is counted and the bundle is ordered
C18_Witness ==
    /\ ManifestReturned /\ OrderingReturned
    /\ yaml_content = <<Null, NamespaceA, Null>>
    /\ result.resource_count = 1
    /\ Len(result.validation_results) = 1
    /\ ordering_result.resource_count = 1
    /\ ordering_result.is_ordered

\* C19 as stated: the index of a per-resource result, and the index named in
\* an ordering violation, is the position of the document in the source
\* sequence, None entries counted.
SourcePositions ==
    SelectSeq([j \in 1..Len(yaml_content) |-> j - 1],
              LAMBDA k : yaml_content[k + 1] # Null)

C19_IndexIsSourcePosition ==
    /\ ManifestReturned =>
          \A j \in 1..Len(result.validation_results) :
              result.validation_results[j].index = SourcePositions[j]
    /\ OrderingReturned =>
          \A j \in 1..Len(ordering_result.ordering_issues) :
              \E k \in 1..Len(SourcePositions) :
                  /\ ordering_result.ordering_issues[j].index = SourcePositions[k]
                  /\ ordering_result.ordering_issues[j].kind
                        = Get(yaml_content[SourcePositions[k] + 1], "kind")

----------------------------------------------------------------------------
(* Claims about the compliance validator *)

ComplianceReturned ==
    /\ out.called /\ ~out.raised
    /\ out.fn \in {"validate_compliance_labels", "validate_compliance_labels(required)"}

\* the resource carries a compliance-level label
CarriesLevel(r) ==
    /\ In("metadata", r) /\ IsDict(Item(r, "metadata"))
    /\ In("labels", Item(r, "metadata")) /\ IsDict(Item(Item(r, "metadata"), "labels"))
    /\ In(LEVEL, Item(Item(r, "metadata"), "labels"))

LevelOf(r) == Item(Item(Item(r, "metadata"), "labels"), LEVEL)

LevelFindings == {j \in 1..Len(out.errors) : out.errors[j].msg = "Invalid compliance level"}

\* C20: for a resource that carries a compliance-level label,
\* validate_compliance_labels reports the invalid-compliance-level finding,
\* once and naming the value, iff the value is none of unrestricted,
\* permissive, standard, strict, restricted.
C20_InvalidLevelIffOutsideSet ==
    (ComplianceReturned /\ CarriesLevel(resource)) =>
        LET inside == LevelOf(resource) \in
                        {Str("unrestricted"), Str("permissive"), Str("standard"),
                         Str("strict"), Str("restricted")}
        IN /\ (LevelFindings # {}) <=> ~inside
           /\ Cardinality(LevelFindings) <= 1
           /\ \A j \in LevelFindings : out.errors[j].arg = Shown(LevelOf(resource))

\* a resource whose level is "bogus", and whose framework is valid, has
\* exactly the invalid-compliance-level finding
C20_Witness ==
    /\ ComplianceReturned
    /\ CarriesLevel(resource)
    /\ LevelOf(resource) = Str("bogus")
    /\ Len(out.errors) = 1
    /\ LevelFindings = {1}

\* the resource's labels hold the framework key
CarriesFramework(r) ==
    /\ In("metadata", r) /\ IsDict(Item(r, "metadata"))
    /\ In("labels", Item(r, "metadata")) /\ IsDict(Item(Item(r, "metadata"), "labels"))
    /\ In(FRAMEWORK, Item(Item(r, "metadata"), "labels"))

RequiredFindings ==
    {j \in 1..Len(out.errors) :
        out.errors[j].msg = "Required label missing: nixernetes.io/framework"}

\* C21: validate_compliance_labels reports the missing-required-label finding
\* (once, and first) iff required is set and the labels do not hold the
\* framework key; with required unset an absent framework label gives no
\* finding at all.
C21_MissingRequiredLabel ==
    ComplianceReturned =>
        LET required == out.fn = "validate_compliance_labels(required)"
        IN /\ (RequiredFindings # {}) <=> (required /\ ~CarriesFramework(resource))
           /\ RequiredFindings \subseteq {1}
           /\ (~required /\ ~CarriesFramework(resource) /\ ~CarriesLevel(resource)) =>
                 out.errors = <<>>

\* required is set and the labels hold a valid level only
C21_Witness ==
    /\ ComplianceReturned
    /\ out.fn = "validate_compliance_labels(required)"
    /\ CarriesLevel(resource) /\ LevelOf(resource) = Str("strict")
    /\ ~CarriesFramework(resource)
    /\ RequiredFindings = {1}
    /\ Len(out.errors) = 1

TraceabilityReturned ==
    out.called /\ ~out.raised /\ out.fn = "validate_traceability"

\* the resource has none of the traceability annotation keys
NoTraceabilityKey(r) ==
    \/ ~In("metadata", r)
    \/ /\ IsDict(Item(r, "metadata"))
       /\ \/ ~In("annotations", Item(r, "metadata"))
          \/ /\ IsDict(Item(Item(r, "metadata"), "annotations"))
             /\ \A f \in traceability_fields :
                   ~In(f, Item(Item(r, "metadata"), "annotations"))

\* C22: for a resource with none of the traceability annotation keys,
\* validate_traceability records the absence as a finding of its result, and
\* the result is valid all the same.
C22_AbsenceRecordedNeverInvalid ==
    (TraceabilityReturned /\ NoTraceabilityKey(resource)) =>
        /\ out.errors # <<>>
        /\ out.is_valid

----------------------------------------------------------------------------
(* Claims about the policy validators *)

PolicyReturnedFrom(fn) == out.called /\ out.fn = fn

Owned(fn) ==
    CASE fn = "validate_network_policy" -> {"NetworkPolicy"}
      [] fn = "validate_kyverno_policy" -> {"ClusterPolicy", "Policy"}
      [] fn = "validate_rbac_resource" ->
            {"Role", "RoleBinding", "ClusterRole", "ClusterRoleBinding"}

PolicyValidators ==
    {"validate_network_policy", "validate_kyverno_policy", "validate_rbac_resource"}

\* the kind of the resource is one of the given kinds
HasKindIn(r, S) == In("kind", r) /\ \E k \in S : Item(r, "kind") = Str(k)

\* C23: a policy validator called on a resource whose kind is none of the
\* kinds it owns, a resource without a kind included and whatever its spec
\* is, returns (it does not raise) valid with an empty finding list.
C23_ForeignKindsAccepted ==
    \A fn \in PolicyValidators :
        (PolicyReturnedFrom(fn) /\ ~HasKindIn(resource, Owned(fn))) =>
            /\ ~out.raised
            /\ out.is_valid
            /\ out.errors = <<>>

\* the Kyverno validator has been given a Role whose spec is a string
C23_Witness ==
    /\ PolicyReturnedFrom("validate_kyverno_policy")
    /\ HasKindIn(resource, {"Role"})
    /\ In("spec", resource) /\ Item(resource, "spec") = Str("oops")
    /\ out.is_valid /\ out.errors = <<>>

\* the spec of the resource, {} when it has none
SpecMapOf(r) == IF In("spec", r) THEN Item(r, "spec") ELSE EmptyMap

NetworkPolicyReturned ==
    /\ out.called /\ ~out.raised /\ out.fn = "validate_network_policy"
    /\ HasKindIn(resource, {"NetworkPolicy"})

NoRulesDefined(r) ==
    \A k \in {"ingress", "egress", "policyTypes"} : ~In(k, SpecMapOf(r))

RulesFindings ==
    {j \in 1..Len(out.errors) :
        out.errors[j].msg = "NetworkPolicy should define ingress/egress rules or policyTypes"}

SelectorFindings ==
    {j \in 1..Len(out.errors) :
        out.errors[j].msg = "NetworkPolicy.spec.podSelector is required"}

\* C24 as stated: a NetworkPolicy whose spec has none of ingress, egress and
\* policyTypes gets exactly one finding from validate_network_policy.
C24_ExactlyOneFinding ==
    (NetworkPolicyReturned /\ NoRulesDefined(resource)) => Len(out.errors) = 1

\* C24 (as amended): such a NetworkPolicy gets exactly one finding about the
\* missing rules, and one more, about podSelector, iff its spec has no
\* podSelector; it gets exactly one finding in all iff podSelector is there.
C24_OneRulesFindingPlusSelector ==
    (NetworkPolicyReturned /\ NoRulesDefined(resource)) =>
        /\ Cardinality(RulesFindings) = 1
        /\ Cardinality(SelectorFindings)
              = (IF In("podSelector", SpecMapOf(resource)) THEN 0 ELSE 1)
        /\ Len(out.errors) = Cardinality(RulesFindings) + Cardinality(SelectorFindings)
        /\ \A j \in SelectorFindings, k \in RulesFindings : j < k

\* a NetworkPolicy with an empty spec has both findings
C24_Witness ==
    /\ NetworkPolicyReturned
    /\ SpecMapOf(resource) = EmptyMap
    /\ Len(out.errors) = 2
    /\ SelectorFindings = {1} /\ RulesFindings = {2}

KyvernoReturned ==
    /\ out.called /\ ~out.raised /\ out.fn = "validate_kyverno_policy"
    /\ HasKindIn(resource, {"ClusterPolicy", "Policy"})

\* spec.rules is there and holds nothing: null, "", [] or {}
RulesPresentButEmpty(r) ==
    /\ In("rules", SpecMapOf(r))
    /\ ~Truthy(Item(SpecMapOf(r), "rules"))

\* C25: for kind ClusterPolicy or Policy, validate_kyverno_policy reports a
\* finding iff spec.rules is absent or present but empty, and exactly one
\* finding in either case.
C25_FindingIffRulesAbsentOrEmpty ==
    (KyvernoReturned /\ IsDict(SpecMapOf(resource))) =>
        Len(out.errors) =
            (IF ~In("rules", SpecMapOf(resource)) \/ RulesPresentButEmpty(resource)
             THEN 1 ELSE 0)

RbacReturned ==
    /\ out.called /\ ~out.raised /\ out.fn = "validate_rbac_resource"
    /\ HasKindIn(resource, {"Role", "ClusterRole", "RoleBinding", "ClusterRoleBinding"})

\* the number of findings of out.errors with the message msg, about the
\* kind of the resource
CountOf(msg) ==
    Cardinality({j \in 1..Len(out.errors) :
        out.errors[j] = Finding(msg, KindOf(resource).v)})

OneIffAbsent(msg, key) ==
    CountOf(msg) = (IF In(key, SpecMapOf(resource)) THEN 0 ELSE 1)

\* C26: validate_rbac_resource reports, for Role and ClusterRole, one finding
\* iff spec.rules is absent and nothing about roleRef or subjects; for
\* RoleBinding and ClusterRoleBinding, one finding iff spec.roleRef is absent
\* and, independently, one iff spec.subjects is absent, and nothing about rules.
C26_RbacFindingsPerKind ==
    RbacReturned =>
        IF HasKindIn(resource, {"Role", "ClusterRole"})
        THEN /\ OneIffAbsent("spec.rules is required", "rules")
             /\ Len(out.errors) = CountOf("spec.rules is required")
        ELSE /\ OneIffAbsent("spec.roleRef is required", "roleRef")
             /\ OneIffAbsent("spec.subjects is required", "subjects")
             /\ Len(out.errors) = CountOf("spec.roleRef is required")
                                    + CountOf("spec.subjects is required")

\* a RoleBinding that has rules and neither roleRef nor subjects: two findings
C26_Witness ==
    /\ RbacReturned
    /\ HasKindIn(resource, {"RoleBinding"})
    /\ IsDict(SpecMapOf(resource))
    /\ DOMAIN SpecMapOf(resource).m = {"rules"}
    /\ Len(out.errors) = 2

\* C27: validate_manifest and validate_resource_ordering leave the bundle as
\* it was, documents and order, and a call that follows another call on the
\* same bundle returns what the same operation returned before, whichever
\* calls came in between.
C27_InputUnchangedCallsRepeatable ==
    [][/\ yaml_content' = yaml_content
       /\ result.called => result' = result
       /\ ordering_result.called => ordering_result' = ordering_result]_vars

\* validate_manifest is at its return for the second time at least, after a
\* validate_resource_ordering: both results of the earlier calls are held, for
\* a bundle of two documents or more with findings
C27_Witness ==
    /\ pc = "validate_manifest" /\ i > Len(resources)
    /\ result.called /\ ~result.raised /\ ~result.is_valid
    /\ ordering_result.called /\ ~ordering_result.raised
    /\ Len(Documents) >= 2
    /\ Len(yaml_content) > Len(Documents)

\* d has apiVersion, kind and a metadata mapping with a string name
HasIdentity(d) ==
    /\ In("apiVersion", d) /\ In("kind", d) /\ In("metadata", d)
    /\ IsDict(Item(d, "metadata"))
    /\ In("name", Item(d, "metadata"))
    /\ IsStr(Item(Item(d, "metadata"), "name"))

\* the labels d carries: those of a metadata.labels mapping
LabelsCarried(d) ==
    IF In("labels", Item(d, "metadata")) /\ IsDict(Item(Item(d, "metadata"), "labels"))
    THEN Item(Item(d, "metadata"), "labels") ELSE EmptyMap

RecognisedLabelValues(d) ==
    /\ In(FRAMEWORK, LabelsCarried(d)) =>
          /\ IsStr(Item(LabelsCarried(d), FRAMEWORK))
          /\ Item(LabelsCarried(d), FRAMEWORK).v \in VALID_FRAMEWORKS
    /\ In(LEVEL, LabelsCarried(d)) =>
          /\ IsStr(Item(LabelsCarried(d), LEVEL))
          /\ Item(LabelsCarried(d), LEVEL).v \in VALID_LEVELS

\* d's spec is a mapping with every key of keys
SpecHas(d, keys) ==
    /\ In("spec", d) /\ IsDict(Item(d, "spec"))
    /\ \A k \in keys : In(k, Item(d, "spec"))

HasRequiredSpecFields(d) ==
    /\ HasKindIn(d, {"NetworkPolicy"}) =>
          /\ SpecHas(d, {"podSelector"})
          /\ \E k \in {"ingress", "egress", "policyTypes"} : SpecHas(d, {k})
    /\ HasKindIn(d, {"ClusterPolicy", "Policy"}) =>
          /\ SpecHas(d, {"rules"})
          /\ Truthy(Item(Item(d, "spec"), "rules"))
    /\ HasKindIn(d, {"Role", "ClusterRole"}) => SpecHas(d, {"rules"})
    /\ HasKindIn(d, {"RoleBinding", "ClusterRoleBinding"}) =>
          SpecHas(d, {"roleRef", "subjects"})

\* the names of the Namespace documents of ds
NamesOfNamespaces(ds) ==
    {Item(Item(ds[j], "metadata"), "name") :
        j \in {k \in 1..Len(ds) : HasKindIn(ds[k], {"Namespace"})}}

ReferencesDeclared(d, ds) ==
    In("namespace", Item(d, "metadata")) =>
        \/ Item(Item(d, "metadata"), "namespace") = Str("default")
        \/ Item(Item(d, "metadata"), "namespace") \in NamesOfNamespaces(ds)

\* the premises C28 states
WellFormedAsStated(ds) ==
    /\ \A j \in 1..Len(ds) : HasIdentity(ds[j])
    /\ \A j \in 1..Len(ds) :
          /\ RecognisedLabelValues(ds[j])
          /\ HasRequiredSpecFields(ds[j])
          /\ ReferencesDeclared(ds[j], ds)
    /\ NonDecreasing(Priorities(ds))

\* metadata.labels and metadata.annotations, where present, are mappings
MappingsWhereDue(d) ==
    \A k \in {"labels", "annotations"} :
        In(k, Item(d, "metadata")) => IsDict(Item(Item(d, "metadata"), k))

ValidAndOrdered ==
    /\ result.called => (~result.raised /\ result.is_valid)
    /\ ordering_result.called =>
          (~ordering_result.raised /\ ordering_result.is_ordered)

\* C28 as stated: a bundle whose documents have apiVersion, kind and a
\* metadata mapping with a string name, only recognised framework and level
\* values, the spec fields their kind requires, only declared namespaces (or
\* "default") and non-decreasing priorities is reported valid and ordered.
C28_WellFormedBundleAccepted ==
    WellFormedAsStated(Documents) => ValidAndOrdered

\* C28 (as amended): such a bundle is reported valid and ordered when, in
\* addition, every metadata.labels and metadata.annotations it has is a mapping.
C28_WellFormedMappingsAccepted ==
    (/\ WellFormedAsStated(Documents)
     /\ \A j \in 1..Len(Documents) : MappingsWhereDue(Documents[j]))
        => ValidAndOrdered

\* both operations have returned for the example manifest
C28_Witness ==
    /\ yaml_content = ExampleManifest
    /\ pc = "idle"
    /\ result.called /\ ~result.raised /\ result.is_valid
    /\ result.resource_count = 4
    /\ ordering_result.called /\ ~ordering_result.raised /\ ordering_result.is_ordered

\* metadata.namespace of d is set (line 339: present and not empty) and is
\* not "default"
NamedNamespace(d) ==
    /\ Truthy(MetadataGet(d, "namespace", Null))
    /\ MetadataGet(d, "namespace", Null) # Str("default")

\* the Namespace document at position k declares the namespace of d
Declares(ds, k, d) ==
    /\ HasKindIn(ds[k], {"Namespace"})
    /\ MetadataGet(ds[k], "name", Null) = MetadataGet(d, "namespace", Null)

\* C29: when validate_resource_ordering reports the bundle ordered and
\* validate_manifest reports no bundle-level finding, every document that is
\* not a Namespace and names a namespace other than "default" comes after a
\* Namespace document of that name.
C29_NamespaceDeclaredBeforeUse ==
    (/\ OrderingReturned /\ ordering_result.is_ordered
     /\ ManifestReturned /\ result.manifest_errors = <<>>) =>
        \A j \in 1..Len(Documents) :
            (~HasKindIn(Documents[j], {"Namespace"}) /\ NamedNamespace(Documents[j])) =>
                \E k \in 1..(j - 1) : Declares(Documents, k, Documents[j])

\* two Namespace documents, then a document of the second one's namespace:
\* ordered and without bundle-level finding
C29_Witness ==
    /\ OrderingReturned /\ ordering_result.is_ordered
    /\ ManifestReturned /\ result.manifest_errors = <<>>
    /\ Len(Documents) = 3
    /\ HasKindIn(Documents[1], {"Namespace"})
    /\ ~HasKindIn(Documents[3], {"Namespace"})
    /\ NamedNamespace(Documents[3])
    /\ Declares(Documents, 2, Documents[3])
    /\ ~Declares(Documents, 1, Documents[3])

\* C30: validate_file on a path that does not exist returns False without
\* raising, appends exactly one record, of code CONFIG_NOT_FOUND (E001) and
\* level ERROR, to the validator's errors, and leaves its warnings as they were.
C30_MissingFileReported ==
    (file_result.called /\ ~filepath.exists) =>
        /\ ~file_result.raised
        /\ file_result.value = FALSE
        /\ Len(self_errors) = 1
        /\ self_errors[1].code = ErrorCode.CONFIG_NOT_FOUND
        /\ self_errors[1].level = ErrorLevel.ERROR
        /\ self_warnings = <<>>

====
